---------------------------- MODULE Spec2Model ----------------------------
(***************************************************************************)
(* Model of the AnoCut edit-decision engine:                               *)
(*   - the AI editor store (apps/web/src/stores/ai-editor-store.ts):       *)
(*     the decision list with its undo and redo stacks of snapshots;       *)
(*   - the preview timeline builder (services/ai/preview-timeline, kept    *)
(*     as src/unnamed/part_012): mergeRanges, subtractRanges and           *)
(*     generatePreviewTimeline.                                            *)
(* Times are whole numbers of seconds.  A speed factor divides a segment   *)
(* length; the inputs are drawn on a grid of Factor seconds, Factor being  *)
(* the speed the Speed decisions carry, so that every quotient the builder *)
(* forms is exact.  Floating-point rounding is not modelled.               *)
(***************************************************************************)
EXTENDS Integers, Sequences, FiniteSets, TLC

VARIABLES aiEdits, undoStack, redoStack, lastCall,
          originalDuration, edits, timeline,
          rangesIn, mergeOut,
          command, videoAnalysis, quickResult,
          analysis, isProcessingCommand, lastCommandResult, commandHistory,
          clientInstance, pending, calls, returned,
          storageVersion, projects, migrationRun, runs, versionsSet,
          migrationResult

storeVars == <<aiEdits, undoStack, redoStack, lastCall>>
tlVars    == <<originalDuration, edits, timeline>>
mergeVars == <<rangesIn, mergeOut>>
quickVars == <<command, videoAnalysis, quickResult>>
\* The store's command state but the analysis, the client singleton, and the
\* executeCommand calls in flight.
cmdVars   == <<isProcessingCommand, lastCommandResult, commandHistory,
               clientInstance, pending, calls, returned>>
\* The storage-version record, the stored projects, the run of
\* runStorageMigrations under way and what the runs have done.
migVars   == <<storageVersion, projects, migrationRun, runs, versionsSet,
               migrationResult>>
vars      == <<aiEdits, undoStack, redoStack, lastCall,
               originalDuration, edits, timeline,
               rangesIn, mergeOut,
               command, videoAnalysis, quickResult,
               analysis, isProcessingCommand, lastCommandResult, commandHistory,
               clientInstance, pending, calls, returned,
               storageVersion, projects, migrationRun, runs, versionsSet,
               migrationResult>>

\* What the handlers of one component leave alone: the other components.
otherVars  == <<tlVars, mergeVars, quickVars, migVars>>
storeFrame == <<otherVars, analysis, cmdVars>>
tlFrame    == <<storeVars, mergeVars, quickVars, analysis, cmdVars, migVars>>
mergeFrame == <<storeVars, tlVars, quickVars, analysis, cmdVars, migVars>>
quickFrame == <<storeVars, tlVars, mergeVars, analysis, cmdVars, migVars>>

-----------------------------------------------------------------------------
(* Bounds of the model: decision ids, the length of an addEdits argument,  *)
(* of the decision list and of the undo stack; the time grid, the length   *)
(* of a decision list given to the builder, and the speed of a Speed       *)
(* decision.                                                               *)

NumIds == 2
MaxAdd == 2
MaxList == 3
MaxHist == 2
MaxTick == 3
MaxEdits == 2
MaxRanges == 3
AnnTick == 2
MaxAnn == 2
MaxCalls == 2
NumMigrations == 2
MaxRuns == 3
MaxProjects == 2
Factor == 2

-----------------------------------------------------------------------------
(* Edit decisions (types/ai.ts, EditDecision) *)

\* params.speed / params.factor: 0 stands for an absent (undefined) field.
Absent == 0

Params(speed, factor) == [speed |-> speed, factor |-> factor]

NoParams == Params(Absent, Absent)

Edit(id, type, startTime, endTime, params) ==
  [id |-> id, type |-> type, startTime |-> startTime, endTime |-> endTime,
   params |-> params]

\* The decisions the store is fed with: one Cut decision per id.
Decision(i) == Edit(i, "cut", i - 1, i, NoParams)

Ids == 1..NumIds

Pool == {Decision(i) : i \in Ids}

SeqsUpTo(S, n) == UNION {[1..k -> S] : k \in 0..n}

Last(s) == s[Len(s)]

Front(s) == SubSeq(s, 1, Len(s) - 1)

-----------------------------------------------------------------------------
(* The store: aiEdits, undoStack, redoStack (ai-editor-store.ts) *)

Store(a, u, r) == [aiEdits |-> a, undoStack |-> u, redoStack |-> r]

\* A slip: the new list is pushed to undo in place of the prior one.
addEditsPushNew(s, newEdits) ==
  Store(s.aiEdits \o newEdits, Append(s.undoStack, s.aiEdits \o newEdits), <<>>)

addEdits(s, newEdits) ==
  Store(s.aiEdits \o newEdits, Append(s.undoStack, s.aiEdits), <<>>)

\* A slip: the redo stack is left as it is.
removeEditKeepRedo(s, id) ==
  Store(SelectSeq(s.aiEdits, LAMBDA e : e.id # id),
        Append(s.undoStack, s.aiEdits), s.redoStack)

\* A slip: an id that no decision has returns before the history is touched.
removeEditGuarded(s, id) ==
  IF \A k \in 1..Len(s.aiEdits) : s.aiEdits[k].id # id
    THEN s
    ELSE Store(SelectSeq(s.aiEdits, LAMBDA e : e.id # id),
               Append(s.undoStack, s.aiEdits), <<>>)

removeEdit(s, id) ==
  Store(SelectSeq(s.aiEdits, LAMBDA e : e.id # id),
        Append(s.undoStack, s.aiEdits), <<>>)

\* A slip: the list is cleared, and the history written, also when it is empty.
clearEditsAlways(s) == Store(<<>>, Append(s.undoStack, s.aiEdits), <<>>)

clearEdits(s) ==
  IF Len(s.aiEdits) > 0
    THEN Store(<<>>, Append(s.undoStack, s.aiEdits), <<>>)
    ELSE s

\* A slip: the oldest snapshot is restored in place of the newest.
undoOldest(s) ==
  IF Len(s.undoStack) = 0
    THEN s
    ELSE Store(Head(s.undoStack), Tail(s.undoStack),
               Append(s.redoStack, s.aiEdits))

undo(s) ==
  IF Len(s.undoStack) = 0
    THEN s
    ELSE Store(Last(s.undoStack), Front(s.undoStack),
               Append(s.redoStack, s.aiEdits))

redo(s) ==
  IF Len(s.redoStack) = 0
    THEN s
    ELSE Store(Last(s.redoStack), Append(s.undoStack, s.aiEdits),
               Front(s.redoStack))

clearAnalysis(s) == Store(<<>>, <<>>, <<>>)

\* The store as the handlers read it with get().
Get == Store(aiEdits, undoStack, redoStack)

\* set(): the three fields are replaced together.
Set(s) ==
  /\ aiEdits' = s.aiEdits
  /\ undoStack' = s.undoStack
  /\ redoStack' = s.redoStack

\* The handler that ran last.
Called(op) == lastCall' = op

AddArgs == SeqsUpTo(Pool, MaxAdd)

AddEdits ==
  \E newEdits \in AddArgs :
    /\ Len(aiEdits) + Len(newEdits) <= MaxList
    /\ Len(undoStack) < MaxHist
    /\ Set(addEdits(Get, newEdits))
    /\ Called("addEdits")
    /\ UNCHANGED storeFrame

\* NumIds + 1 is an id no decision has.
RemoveEdit ==
  \E id \in 1..(NumIds + 1) :
    /\ Len(undoStack) < MaxHist
    /\ Set(removeEdit(Get, id))
    /\ Called("removeEdit")
    /\ UNCHANGED storeFrame

ClearEdits ==
  /\ Len(undoStack) < MaxHist
  /\ Set(clearEdits(Get))
  /\ Called("clearEdits")
  /\ UNCHANGED storeFrame

Undo ==
  /\ Set(undo(Get))
  /\ Called("undo")
  /\ UNCHANGED storeFrame

Redo ==
  /\ Set(redo(Get))
  /\ Called("redo")
  /\ UNCHANGED storeFrame

\* analysis: null is the empty list, an analysis the list that holds it.
ClearAnalysis ==
  /\ Set(clearAnalysis(Get))
  /\ analysis' = <<>>
  /\ Called("clearAnalysis")
  /\ UNCHANGED <<otherVars, cmdVars>>

NoTimeline ==
  [segments |-> <<>>, originalDuration |-> 0, previewDuration |-> 0,
   totalCutDuration |-> 0, cutCount |-> 0]

\* The store as created.
InitStore ==
  /\ aiEdits = <<>>
  /\ undoStack = <<>>
  /\ redoStack = <<>>
  /\ lastCall = "create"

\* No timeline has been asked for.
IdleTimeline ==
  /\ originalDuration = 0
  /\ edits = <<>>
  /\ timeline = NoTimeline

\* No merge has been asked for.
IdleMerge ==
  /\ rangesIn = <<>>
  /\ mergeOut = {}

\* An optional field that is not there.
Undefined == "undefined"

\* The interpretation text: its wording and the count it quotes.
Interpretation(text, count) == [text |-> text, count |-> count]

\* A CommandResult; returned is "result", or "null" when the function
\* returned null.
CommandResult(success, cmd, interpretation, es, affectedTimeRanges, error) ==
  [returned |-> "result", success |-> success, command |-> cmd,
   interpretation |-> interpretation, edits |-> es,
   affectedTimeRanges |-> affectedTimeRanges, error |-> error]

ReturnedNull ==
  [CommandResult(FALSE, <<>>, Interpretation("", 0), <<>>, <<>>, Undefined)
     EXCEPT !.returned = "null"]

NotCalled == [ReturnedNull EXCEPT !.returned = "not called"]

VideoAnalysis(duration, annotations, transcript) ==
  [duration |-> duration, annotations |-> annotations, transcript |-> transcript]

\* No command has been given to tryQuickCommand.
IdleQuick ==
  /\ command = <<>>
  /\ videoAnalysis = VideoAnalysis(0, <<>>, <<>>)
  /\ quickResult = NotCalled

\* The reply of the external interpreter to one request.  kind is "json" for
\* a parsed reply, "throws" for a rejected request, "none" when the interpreter
\* was not asked; hasEdits tells whether the parsed reply has an edits array,
\* isError whether the value thrown is an Error.
Reply(kind, success, interpretation, hasEdits, es, error, isError) ==
  [kind |-> kind, success |-> success, interpretation |-> interpretation,
   hasEdits |-> hasEdits, edits |-> es, error |-> error, isError |-> isError]

NoReply == Reply("none", FALSE, Interpretation("", 0), FALSE, <<>>, Undefined, FALSE)

\* What an executeCommand call returned: the call, the reply its interpreter
\* request got, and the result.
Returned(call, reply, result) == [call |-> call, reply |-> reply, result |-> result]

\* The command state as created; no executeCommand call was made.
IdleCommand ==
  /\ analysis = <<>>
  /\ isProcessingCommand = FALSE
  /\ lastCommandResult = ReturnedNull
  /\ commandHistory = <<>>
  /\ clientInstance = FALSE
  /\ pending = {}
  /\ calls = 0
  /\ returned = Returned(0, NoReply, ReturnedNull)

\* A run of runStorageMigrations: where it is, and its locals fromVersion,
\* currentVersion and the place of the loop in orderedMigrations.
Run(pc, fromVersion, currentVersion, index) ==
  [pc |-> pc, fromVersion |-> fromVersion, currentVersion |-> currentVersion,
   index |-> index]

NoRun == Run("idle", 0, 0, 0)

\* Storage as it is before the first run: no version record, no projects.
IdleMigrations ==
  /\ storageVersion = <<>>
  /\ projects = <<>>
  /\ migrationRun = NoRun
  /\ runs = 0
  /\ versionsSet = {}
  /\ migrationResult = <<>>

Init ==
  /\ InitStore
  /\ IdleTimeline
  /\ IdleMerge
  /\ IdleQuick
  /\ IdleCommand
  /\ IdleMigrations

Next ==
  \/ AddEdits
  \/ RemoveEdit
  \/ ClearEdits
  \/ Undo
  \/ Redo
  \/ ClearAnalysis

Spec == Init /\ [][Next]_vars

-----------------------------------------------------------------------------
(* The preview timeline builder (services/ai/preview-generator) *)

Range(start, end) == [start |-> start, end |-> end]

Max(a, b) == IF a >= b THEN a ELSE b

SetMax(S) == CHOOSE x \in S : \A y \in S : y <= x

\* A slip: the ranges are merged in input order, unsorted.
Unsorted(ranges) == [k \in 1..Len(ranges) |-> k]

\* [...ranges].sort((a, b) => a.start - b.start): the positions of the input
\* array in ascending order of start; the sort is stable.  The sorted array
\* holds the very objects of the input array.
SortedByStart(ranges) ==
  LET n == Len(ranges)
      Before(j, i) ==
        \/ ranges[j].start < ranges[i].start
        \/ (ranges[j].start = ranges[i].start /\ j < i)
      Rank(i) == 1 + Cardinality({j \in 1..n : Before(j, i)})
  IN  [k \in 1..n |-> CHOOSE i \in 1..n : Rank(i) = k]

\* A slip: "<" for "<=", ranges that only touch are not merged.
RECURSIVE MergeLoopStrict(_, _, _, _)
MergeLoopStrict(heap, sorted, merged, i) ==
  IF i > Len(sorted)
    THEN [heap |-> heap, merged |-> merged]
    ELSE LET current == sorted[i]
             last == merged[Len(merged)]
         IN  IF heap[current].start < heap[last].end
               THEN MergeLoopStrict(
                      [heap EXCEPT ![last].end =
                         Max(heap[last].end, heap[current].end)],
                      sorted, merged, i + 1)
               ELSE MergeLoopStrict(heap, sorted, Append(merged, current), i + 1)

\* The loop of mergeRanges.  heap holds the range objects by their position in
\* the input array, merged the positions of the objects pushed to the result;
\* "last.end = ..." writes to an object the input array holds too.
RECURSIVE MergeLoop(_, _, _, _)
MergeLoop(heap, sorted, merged, i) ==
  IF i > Len(sorted)
    THEN [heap |-> heap, merged |-> merged]
    ELSE LET current == sorted[i]
             last == merged[Len(merged)]
         IN  IF heap[current].start <= heap[last].end
               THEN MergeLoop(
                      [heap EXCEPT ![last].end =
                         Max(heap[last].end, heap[current].end)],
                      sorted, merged, i + 1)
               ELSE MergeLoop(heap, sorted, Append(merged, current), i + 1)

\* mergeRanges(ranges): .merged is the array returned, .ranges the input
\* array as the call leaves it.
mergeRanges(ranges) ==
  IF Len(ranges) = 0
    THEN [merged |-> <<>>, ranges |-> ranges]
    ELSE LET sorted == SortedByStart(ranges)
             r == MergeLoop(ranges, sorted, <<sorted[1]>>, 2)
         IN  [merged |-> [k \in 1..Len(r.merged) |-> r.heap[r.merged[k]]],
              ranges |-> r.heap]

(* The merge of the command interpreter: the same fold over ranges whose
   fields are startTime and endTime. *)
TimeRange(startTime, endTime) == [startTime |-> startTime, endTime |-> endTime]

\* [...ranges].sort((a, b) => a.startTime - b.startTime), stable, as positions
\* of the input array.
SortedByStartTime(ranges) ==
  LET n == Len(ranges)
      Before(j, i) ==
        \/ ranges[j].startTime < ranges[i].startTime
        \/ (ranges[j].startTime = ranges[i].startTime /\ j < i)
      Rank(i) == 1 + Cardinality({j \in 1..n : Before(j, i)})
  IN  [k \in 1..n |-> CHOOSE i \in 1..n : Rank(i) = k]

\* A slip: the last range takes the end of the current one, without Math.max.
RECURSIVE MergeOverlappingLoopNoMax(_, _, _, _)
MergeOverlappingLoopNoMax(heap, sorted, merged, i) ==
  IF i > Len(sorted)
    THEN [heap |-> heap, merged |-> merged]
    ELSE LET current == sorted[i]
             last == merged[Len(merged)]
         IN  IF heap[current].startTime <= heap[last].endTime
               THEN MergeOverlappingLoopNoMax(
                      [heap EXCEPT ![last].endTime = heap[current].endTime],
                      sorted, merged, i + 1)
               ELSE MergeOverlappingLoopNoMax(heap, sorted,
                                              Append(merged, current), i + 1)

\* The loop of mergeOverlappingRanges; heap and merged as in MergeLoop.
RECURSIVE MergeOverlappingLoop(_, _, _, _)
MergeOverlappingLoop(heap, sorted, merged, i) ==
  IF i > Len(sorted)
    THEN [heap |-> heap, merged |-> merged]
    ELSE LET current == sorted[i]
             last == merged[Len(merged)]
         IN  IF heap[current].startTime <= heap[last].endTime
               THEN MergeOverlappingLoop(
                      [heap EXCEPT ![last].endTime =
                         Max(heap[last].endTime, heap[current].endTime)],
                      sorted, merged, i + 1)
               ELSE MergeOverlappingLoop(heap, sorted,
                                         Append(merged, current), i + 1)

\* mergeOverlappingRanges(ranges): .merged is the array returned, .ranges the
\* input array as the call leaves it.
mergeOverlappingRanges(ranges) ==
  IF Len(ranges) = 0
    THEN [merged |-> <<>>, ranges |-> ranges]
    ELSE LET sorted == SortedByStartTime(ranges)
             r == MergeOverlappingLoop(ranges, sorted, <<sorted[1]>>, 2)
         IN  [merged |-> [k \in 1..Len(r.merged) |-> r.heap[r.merged[k]]],
              ranges |-> r.heap]

\* The loop of subtractRanges over the merged cuts.
RECURSIVE SubtractLoop(_, _, _, _)
SubtractLoop(merged, i, currentStart, kept) ==
  IF i > Len(merged)
    THEN [kept |-> kept, currentStart |-> currentStart]
    ELSE LET cut == merged[i]
             kept1 == IF cut.start > currentStart
                        THEN Append(kept, Range(currentStart, cut.start))
                        ELSE kept
         IN  SubtractLoop(merged, i + 1, Max(currentStart, cut.end), kept1)

\* subtractRanges(duration, cutRanges): .kept is the array returned, .ranges
\* the input array as the call leaves it.
subtractRanges(duration, cutRanges) ==
  IF Len(cutRanges) = 0
    THEN [kept |-> <<Range(0, duration)>>, ranges |-> cutRanges]
    ELSE LET m == mergeRanges(cutRanges)
             r == SubtractLoop(m.merged, 1, 0, <<>>)
         IN  [kept |-> IF r.currentStart < duration
                         THEN Append(r.kept, Range(r.currentStart, duration))
                         ELSE r.kept,
              ranges |-> m.ranges]

OfType(es, type) == SelectSeq(es, LAMBDA e : e.type = type)

\* speedEdits.find(...): the position of the first Speed decision whose range
\* contains the kept range, 0 when there is none.
FindSpeedEdit(speedEdits, kept) ==
  LET hits == {i \in 1..Len(speedEdits) :
                 /\ speedEdits[i].startTime <= kept.start
                 /\ speedEdits[i].endTime >= kept.end}
  IN  IF hits = {} THEN 0 ELSE CHOOSE i \in hits : \A j \in hits : i <= j

\* (applicableSpeedEdit?.params?.speed as number) || 1
SpeedFactorOf(speedEdits, kept) ==
  LET i == FindSpeedEdit(speedEdits, kept)
      speed == IF i = 0 THEN Absent ELSE speedEdits[i].params.speed
  IN  IF speed = Absent THEN 1 ELSE speed

\* segmentDuration / speedFactor
Quot(a, b) == a \div b

\* A slip: the segment's preview end is not retimed.
SegmentUnscaled(kept, previewTime, speedFactor) ==
  [originalStart |-> kept.start,
   originalEnd |-> kept.end,
   previewStart |-> previewTime,
   previewEnd |-> previewTime + (kept.end - kept.start),
   speedFactor |-> speedFactor,
   isCut |-> FALSE]

Segment(kept, previewTime, speedFactor) ==
  [originalStart |-> kept.start,
   originalEnd |-> kept.end,
   previewStart |-> previewTime,
   previewEnd |-> previewTime + Quot(kept.end - kept.start, speedFactor),
   speedFactor |-> speedFactor,
   isCut |-> FALSE]

\* The loop over keptRanges: previewTime is carried from segment to segment.
RECURSIVE SegmentLoop(_, _, _, _, _)
SegmentLoop(keptRanges, speedEdits, i, previewTime, segments) ==
  IF i > Len(keptRanges)
    THEN [segments |-> segments, previewTime |-> previewTime]
    ELSE LET kept == keptRanges[i]
             speedFactor == SpeedFactorOf(speedEdits, kept)
             previewDuration == Quot(kept.end - kept.start, speedFactor)
         IN  SegmentLoop(keptRanges, speedEdits, i + 1,
                         previewTime + previewDuration,
                         Append(segments, Segment(kept, previewTime, speedFactor)))

RECURSIVE SumLengths(_)
SumLengths(ranges) ==
  IF Len(ranges) = 0
    THEN 0
    ELSE (ranges[1].end - ranges[1].start) + SumLengths(Tail(ranges))

generatePreviewTimeline(duration, es) ==
  LET cutEdits == OfType(es, "cut")
      speedEdits == OfType(es, "speed")
      cutRanges == [k \in 1..Len(cutEdits) |->
                      Range(cutEdits[k].startTime, cutEdits[k].endTime)]
      sub == subtractRanges(duration, cutRanges)
      built == SegmentLoop(sub.kept, speedEdits, 1, 0, <<>>)
      \* the second merge reads the array the first one has written to
      mergedCuts == mergeRanges(sub.ranges).merged
  IN  [segments |-> built.segments,
       originalDuration |-> duration,
       previewDuration |-> built.previewTime,
       totalCutDuration |-> SumLengths(mergedCuts),
       cutCount |-> Len(mergedCuts)]

-----------------------------------------------------------------------------
(* The time mapper (originalToPreviewTime, previewToOriginalTime) *)

\* The value returned for "no preview time": null.
Null == -1

\* The first segment of the list that satisfies Test, 0 when there is none.
FirstSegment(segs, Test(_)) ==
  LET hits == {k \in 1..Len(segs) : Test(segs[k])}
  IN  IF hits = {} THEN 0 ELSE CHOOSE k \in hits : \A j \in hits : k <= j

\* A slip: the segment's end is taken as part of the segment.
originalToPreviewInclusive(originalTime, tl) ==
  LET k == FirstSegment(tl.segments,
             LAMBDA seg : /\ originalTime >= seg.originalStart
                          /\ originalTime <= seg.originalEnd)
  IN  IF k = 0
        THEN Null
        ELSE tl.segments[k].previewStart
               + Quot(originalTime - tl.segments[k].originalStart,
                      tl.segments[k].speedFactor)

originalToPreviewTime(originalTime, tl) ==
  LET k == FirstSegment(tl.segments,
             LAMBDA seg : /\ originalTime >= seg.originalStart
                          /\ originalTime < seg.originalEnd)
  IN  IF k = 0
        THEN Null
        ELSE tl.segments[k].previewStart
               + Quot(originalTime - tl.segments[k].originalStart,
                      tl.segments[k].speedFactor)

\* lastSegment?.originalEnd || 0
EndOfLastSegment(tl) ==
  IF Len(tl.segments) = 0
    THEN 0
    ELSE tl.segments[Len(tl.segments)].originalEnd

\* A slip: the offset in preview time is not scaled back.
previewToOriginalUnscaled(previewTime, tl) ==
  LET k == FirstSegment(tl.segments,
             LAMBDA seg : /\ previewTime >= seg.previewStart
                          /\ previewTime < seg.previewEnd)
  IN  IF k = 0
        THEN EndOfLastSegment(tl)
        ELSE tl.segments[k].originalStart
               + (previewTime - tl.segments[k].previewStart)

\* A slip: beyond the last segment the preview end is returned.
previewToOriginalClampPreview(previewTime, tl) ==
  LET k == FirstSegment(tl.segments,
             LAMBDA seg : /\ previewTime >= seg.previewStart
                          /\ previewTime < seg.previewEnd)
  IN  IF k = 0
        THEN IF Len(tl.segments) = 0
               THEN 0
               ELSE tl.segments[Len(tl.segments)].previewEnd
        ELSE tl.segments[k].originalStart
               + (previewTime - tl.segments[k].previewStart)
                   * tl.segments[k].speedFactor

previewToOriginalTime(previewTime, tl) ==
  LET k == FirstSegment(tl.segments,
             LAMBDA seg : /\ previewTime >= seg.previewStart
                          /\ previewTime < seg.previewEnd)
  IN  IF k = 0
        THEN EndOfLastSegment(tl)
        ELSE tl.segments[k].originalStart
               + (previewTime - tl.segments[k].previewStart)
                   * tl.segments[k].speedFactor

-----------------------------------------------------------------------------
(* The quick commands (tryQuickCommand) *)

\* A command is a list of words; a word is written in lower or in upper case,
\* a number is a word of its own.
Word(w) == [word |-> w, upper |-> FALSE, value |-> 0]

Number(n) == [word |-> "#", upper |-> FALSE, value |-> n]

\* command.toLowerCase()
toLowerCase(cmd) == [k \in 1..Len(cmd) |-> [cmd[k] EXCEPT !.upper = FALSE]]

\* The trigger texts a lower-case word holds as a substring.
SubstringsOf(w) ==
  CASE w = "remove" -> {"remove"}
    [] w \in {"silence", "silences"} -> {"silence"}
    [] w \in {"filler", "fillers"} -> {"filler"}
    [] w = "cut" -> {"cut"}
    [] w \in {"um", "volume"} -> {"um"}
    [] w = "uh" -> {"uh"}
    [] w = "keep" -> {"keep"}
    [] w = "talking" -> {"talking"}
    [] w = "speech" -> {"speech"}
    [] w = "speaking" -> {"speaking"}
    [] w \in {"pause", "pauses"} -> {"pause"}
    [] OTHER -> {}

\* text.includes(sub): the search is case-sensitive and the triggers are in
\* lower case.
includes(text, sub) ==
  \E k \in 1..Len(text) : ~text[k].upper /\ sub \in SubstringsOf(text[k].word)

\* The match of
\*   /remove.*pause.*(?:longer|over|more)\s*(?:than)?\s*(\d+(?:\.\d+)?).../i
\* on the words: the positions of a number that follows "longer", "over" or
\* "more", directly or after "than", with "pause" before and "remove" before
\* that.  The flag i makes the match ignore case.
PauseMatches(text) ==
  {n \in 1..Len(text) :
     /\ text[n].word = "#"
     /\ \E i, j, k \in 1..Len(text) :
          /\ i < j /\ j < k /\ k < n
          /\ "remove" \in SubstringsOf(text[i].word)
          /\ "pause" \in SubstringsOf(text[j].word)
          /\ text[k].word \in {"longer", "over", "more"}
          /\ \/ n = k + 1
             \/ (n = k + 2 /\ text[k + 1].word = "than")}

\* parseFloat(pauseMatch[1]), Null when the pattern does not match; the
\* greedy ".*" take the last number that fits.
PauseThreshold(text) ==
  IF PauseMatches(text) = {}
    THEN Null
    ELSE text[SetMax(PauseMatches(text))].value

\* An edit of a quick command; nanoid() and createdAt are left out.
CutEdit(startTime, endTime, reason, cmd) ==
  [type |-> "cut", startTime |-> startTime, endTime |-> endTime,
   params |-> [reason |-> reason], command |-> cmd]

AnnotationsOfType(theAnalysis, type) ==
  SelectSeq(theAnalysis.annotations, LAMBDA a : a.type = type)

createCutsFromKeepRanges(keepRanges, duration, cmd) ==
  IF Len(keepRanges) = 0
    THEN <<>>
    ELSE LET order == SortedByStart(keepRanges)
             sorted == [k \in 1..Len(order) |-> keepRanges[order[k]]]
             before == IF sorted[1].start > 0
                         THEN <<CutEdit(0, sorted[1].start,
                                        "before first keep range", cmd)>>
                         ELSE <<>>
             Gap(i) == IF sorted[i + 1].start > sorted[i].end
                         THEN <<CutEdit(sorted[i].end, sorted[i + 1].start,
                                        "between keep ranges", cmd)>>
                         ELSE <<>>
             Between[i \in 0..(Len(sorted) - 1)] ==
               IF i = 0 THEN <<>> ELSE Between[i - 1] \o Gap(i)
             lastEnd == sorted[Len(sorted)].end
             after == IF lastEnd < duration
                        THEN <<CutEdit(lastEnd, duration,
                                       "after last keep range", cmd)>>
                        ELSE <<>>
         IN  before \o Between[Len(sorted) - 1] \o after

\* One cut per annotation of a list, and the ranges reported for them.
CutsOfAnnotations(anns, reason, cmd) ==
  [k \in 1..Len(anns) |-> CutEdit(anns[k].startTime, anns[k].endTime, reason, cmd)]

AffectedOf(es) == [k \in 1..Len(es) |-> Range(es[k].startTime, es[k].endTime)]

\* The four rules: what each returns once its trigger has matched.
\* A slip: the annotations are not filtered by type.
RemoveSilenceUnfiltered(cmd, theAnalysis) ==
  LET silenceAnnotations == theAnalysis.annotations
  IN  IF Len(silenceAnnotations) = 0
        THEN CommandResult(TRUE, cmd,
               Interpretation("No silence segments found in the video.", 0),
               <<>>, <<>>, Undefined)
        ELSE LET es == CutsOfAnnotations(silenceAnnotations, "silence", cmd)
             IN  CommandResult(TRUE, cmd,
                   Interpretation("Found N silence segments to remove.",
                                  Len(silenceAnnotations)),
                   es, AffectedOf(es), Undefined)

RemoveSilence(cmd, theAnalysis) ==
  LET silenceAnnotations == AnnotationsOfType(theAnalysis, "silence")
  IN  IF Len(silenceAnnotations) = 0
        THEN CommandResult(TRUE, cmd,
               Interpretation("No silence segments found in the video.", 0),
               <<>>, <<>>, Undefined)
        ELSE LET es == CutsOfAnnotations(silenceAnnotations, "silence", cmd)
             IN  CommandResult(TRUE, cmd,
                   Interpretation("Found N silence segments to remove.",
                                  Len(silenceAnnotations)),
                   es, AffectedOf(es), Undefined)

\* A slip: the filler segments of the transcript are left out.
CutFillersAnnotationsOnly(cmd, theAnalysis) ==
  LET fillerAnnotations == AnnotationsOfType(theAnalysis, "filler")
      allFillers ==
        [k \in 1..Len(fillerAnnotations) |->
           TimeRange(fillerAnnotations[k].startTime, fillerAnnotations[k].endTime)]
      mergedFillers == mergeOverlappingRanges(allFillers).merged
  IN  IF Len(mergedFillers) = 0
        THEN CommandResult(TRUE, cmd,
               Interpretation("No filler words found in the video.", 0),
               <<>>, <<>>, Undefined)
        ELSE LET es == CutsOfAnnotations(mergedFillers, "filler", cmd)
             IN  CommandResult(TRUE, cmd,
                   Interpretation("Found N filler word segments to remove.",
                                  Len(mergedFillers)),
                   es, AffectedOf(es), Undefined)

CutFillers(cmd, theAnalysis) ==
  LET fillerAnnotations == AnnotationsOfType(theAnalysis, "filler")
      fillerTranscript == SelectSeq(theAnalysis.transcript, LAMBDA t : t.isFiller)
      allFillers ==
        [k \in 1..Len(fillerAnnotations) |->
           TimeRange(fillerAnnotations[k].startTime, fillerAnnotations[k].endTime)]
        \o [k \in 1..Len(fillerTranscript) |->
              TimeRange(fillerTranscript[k].startTime, fillerTranscript[k].endTime)]
      mergedFillers == mergeOverlappingRanges(allFillers).merged
  IN  IF Len(mergedFillers) = 0
        THEN CommandResult(TRUE, cmd,
               Interpretation("No filler words found in the video.", 0),
               <<>>, <<>>, Undefined)
        ELSE LET es == CutsOfAnnotations(mergedFillers, "filler", cmd)
             IN  CommandResult(TRUE, cmd,
                   Interpretation("Found N filler word segments to remove.",
                                  Len(mergedFillers)),
                   es, AffectedOf(es), Undefined)

KeepTalking(cmd, theAnalysis) ==
  LET talkingAnnotations == AnnotationsOfType(theAnalysis, "talking")
  IN  IF Len(talkingAnnotations) = 0
        THEN CommandResult(FALSE, cmd,
               Interpretation("No talking segments found to keep.", 0),
               <<>>, <<>>, "No talking segments detected in the video.")
        ELSE LET es == createCutsFromKeepRanges(
                         [k \in 1..Len(talkingAnnotations) |->
                            Range(talkingAnnotations[k].startTime,
                                  talkingAnnotations[k].endTime)],
                         theAnalysis.duration, cmd)
             IN  CommandResult(TRUE, cmd,
                   Interpretation("Keeping N talking segments, cutting the rest.",
                                  Len(talkingAnnotations)),
                   es, AffectedOf(es), Undefined)

\* A slip: ">=" for ">", a pause of exactly the threshold is cut.
RemoveLongPausesInclusive(cmd, theAnalysis, threshold) ==
  LET longPauses ==
        SelectSeq(theAnalysis.annotations,
                  LAMBDA a : a.type = "silence" /\ a.endTime - a.startTime >= threshold)
  IN  IF Len(longPauses) = 0
        THEN CommandResult(TRUE, cmd,
               Interpretation("No pauses longer than T seconds found.", threshold),
               <<>>, <<>>, Undefined)
        ELSE LET es == CutsOfAnnotations(longPauses, "long pause", cmd)
             IN  CommandResult(TRUE, cmd,
                   Interpretation("Found N pauses longer than Ts to remove.",
                                  Len(longPauses)),
                   es, AffectedOf(es), Undefined)

RemoveLongPauses(cmd, theAnalysis, threshold) ==
  LET longPauses ==
        SelectSeq(theAnalysis.annotations,
                  LAMBDA a : a.type = "silence" /\ a.endTime - a.startTime > threshold)
  IN  IF Len(longPauses) = 0
        THEN CommandResult(TRUE, cmd,
               Interpretation("No pauses longer than T seconds found.", threshold),
               <<>>, <<>>, Undefined)
        ELSE LET es == CutsOfAnnotations(longPauses, "long pause", cmd)
             IN  CommandResult(TRUE, cmd,
                   Interpretation("Found N pauses longer than Ts to remove.",
                                  Len(longPauses)),
                   es, AffectedOf(es), Undefined)

\* The triggers of the four rules on the normalized command.
TriggersRemoveSilence(text) == includes(text, "remove") /\ includes(text, "silence")

TriggersCutFillers(text) ==
  \/ includes(text, "filler")
  \/ (includes(text, "cut") /\ (includes(text, "um") \/ includes(text, "uh")))

TriggersKeepTalking(text) ==
  /\ includes(text, "keep")
  /\ (\/ includes(text, "talking")
      \/ includes(text, "speech")
      \/ includes(text, "speaking"))

TriggersRemoveLongPauses(text) == PauseThreshold(text) # Null

\* A slip: the filler rule is tried before the silence rule.
tryQuickCommandFillersFirst(cmd, theAnalysis) ==
  LET normalizedCommand == toLowerCase(cmd)
  IN  IF TriggersCutFillers(normalizedCommand)
        THEN CutFillers(cmd, theAnalysis)
      ELSE IF TriggersRemoveSilence(normalizedCommand)
        THEN RemoveSilence(cmd, theAnalysis)
      ELSE IF TriggersKeepTalking(normalizedCommand)
        THEN KeepTalking(cmd, theAnalysis)
      ELSE IF TriggersRemoveLongPauses(normalizedCommand)
        THEN RemoveLongPauses(cmd, theAnalysis, PauseThreshold(normalizedCommand))
      ELSE ReturnedNull

\* trim() has nothing to remove from a list of words.
tryQuickCommand(cmd, theAnalysis) ==
  LET normalizedCommand == toLowerCase(cmd)
  IN  IF TriggersRemoveSilence(normalizedCommand)
        THEN RemoveSilence(cmd, theAnalysis)
      ELSE IF TriggersCutFillers(normalizedCommand)
        THEN CutFillers(cmd, theAnalysis)
      ELSE IF TriggersKeepTalking(normalizedCommand)
        THEN KeepTalking(cmd, theAnalysis)
      ELSE IF TriggersRemoveLongPauses(normalizedCommand)
        THEN RemoveLongPauses(cmd, theAnalysis, PauseThreshold(normalizedCommand))
      ELSE ReturnedNull

-----------------------------------------------------------------------------
(* The inputs of the builder *)

TimePoints == {Factor * k : k \in 0..MaxTick}

Durations == TimePoints \ {0}

\* Cut decisions, zero-length ones and ones beyond the media included.
CutEdits ==
  {Edit(0, "cut", a, b, NoParams) : a, b \in TimePoints} \ 
  {e \in {Edit(0, "cut", a, b, NoParams) : a, b \in TimePoints} :
     e.startTime > e.endTime}

\* Speed decisions: the factor sits in params.speed, the field the builder
\* reads, or in params.factor, the field SpeedParams declares.
SpeedEdits ==
  {e \in {Edit(0, "speed", a, b, p) :
            a, b \in TimePoints,
            p \in {Params(Factor, Absent), Params(Absent, Factor)}} :
     e.startTime < e.endTime}

KeepEdits ==
  {e \in {Edit(0, "keep", a, b, NoParams) : a, b \in TimePoints} :
     e.startTime < e.endTime}

\* Decision lists; a decision's id is its position in the list.
Numbered(es) == [k \in 1..Len(es) |-> [es[k] EXCEPT !.id = k]]

EditLists ==
  {Numbered(es) : es \in SeqsUpTo(CutEdits \cup SpeedEdits \cup KeepEdits, MaxEdits)}

\* The worked examples of the design document.
ExampleOverlap == <<Edit(1, "cut", 5, 15, NoParams), Edit(2, "cut", 10, 20, NoParams)>>

ExampleTwoCuts == <<Edit(1, "cut", 0, 10, NoParams), Edit(2, "cut", 40, 50, NoParams)>>

ExampleSpeed == <<Edit(1, "speed", 20, 30, Params(Absent, 2))>>

ExampleSpeedField == <<Edit(1, "speed", 20, 30, Params(2, Absent))>>

Examples ==
  {<<100, ExampleOverlap>>, <<100, ExampleTwoCuts>>,
   <<40, ExampleSpeed>>, <<40, ExampleSpeedField>>}

Built == timeline # NoTimeline

InitTimeline ==
  /\ InitStore
  /\ IdleMerge
  /\ IdleQuick
  /\ IdleCommand
  /\ IdleMigrations
  /\ \E input \in (Durations \X EditLists) \cup Examples :
       /\ originalDuration = input[1]
       /\ edits = input[2]
  /\ timeline = NoTimeline

Generate ==
  /\ ~Built
  /\ timeline' = generatePreviewTimeline(originalDuration, edits)
  /\ UNCHANGED <<originalDuration, edits>>
  /\ UNCHANGED tlFrame

NextTimeline == Generate

SpecTimeline == InitTimeline /\ [][NextTimeline]_vars

-----------------------------------------------------------------------------
(* The store's history *)

IsStrictPrefix(a, b) == Len(a) < Len(b) /\ SubSeq(b, 1, Len(a)) = a

\* C1: from any store state with decision list L and for any list D,
\* addEdits(D) then undo() gives the list L again, and a following redo()
\* gives L followed by D, decision for decision.
C1_AddUndoRedo ==
  \A D \in AddArgs :
    LET s1 == addEdits(Get, D)
        s2 == undo(s1)
        s3 == redo(s2)
    IN  /\ s2.aiEdits = aiEdits
        /\ s3.aiEdits = aiEdits \o D

\* A redo has just brought back an addition on top of an older history.
C1_Witness ==
  /\ lastCall = "redo"
  /\ Len(undoStack) = MaxHist
  /\ IsStrictPrefix(Last(undoStack), aiEdits)
  /\ Len(Last(undoStack)) > 0

\* C2 (as claimed): no snapshot in the undo stack equals the current list.
C2_UndoNeverHoldsCurrent ==
  \A i \in 1..Len(undoStack) : undoStack[i] # aiEdits

\* C2 (amended): a step that grows the undo stack and changes the decision
\* list leaves on top of the undo stack the list as it was before the step,
\* which therefore differs from the current list.
C2_PushedSnapshotIsPrior ==
  [][(Len(undoStack') = Len(undoStack) + 1 /\ aiEdits' # aiEdits)
       => (Last(undoStack') = aiEdits /\ Last(undoStack') # aiEdits')]_vars

\* An addition, removal or clear has pushed a snapshot unlike the current list.
C2_Witness ==
  /\ lastCall \in {"addEdits", "removeEdit", "clearEdits"}
  /\ Len(undoStack) > 0
  /\ Last(undoStack) # aiEdits

\* C3: addEdits and removeEdit with any argument, and clearEdits on a
\* non-empty list, leave the redo stack empty; only undo() grows the redo stack.
C3_RedoClearedOnMutation ==
  [][/\ (\/ lastCall' \in {"addEdits", "removeEdit"}
         \/ (lastCall' = "clearEdits" /\ aiEdits # <<>>))
          => redoStack' = <<>>
     /\ Len(redoStack') > Len(redoStack) => lastCall' = "undo"]_vars

\* A removal has run after earlier history and the redo stack is empty.
C3_Witness ==
  /\ lastCall = "removeEdit"
  /\ Len(undoStack) = MaxHist
  /\ redoStack = <<>>

-----------------------------------------------------------------------------
(* The built timeline *)

Segments == timeline.segments

KeptRanges ==
  [k \in 1..Len(Segments) |->
     Range(Segments[k].originalStart, Segments[k].originalEnd)]

CutsOf(es) == OfType(es, "cut")

CutRangesOf(es) ==
  [k \in 1..Len(CutsOf(es)) |-> Range(CutsOf(es)[k].startTime, CutsOf(es)[k].endTime)]

Overlap(a, b) == a.start < b.end /\ b.start < a.end

Covers(r, t) == r.start <= t /\ t < r.end

CoveredBy(ranges, t) == \E k \in 1..Len(ranges) : Covers(ranges[k], t)

\* All times are whole seconds: a set of times is the set of the one-second
\* cells [t, t+1) it holds.
Horizon ==
  SetMax({originalDuration} \cup {edits[k].endTime : k \in 1..Len(edits)})

Cells == 0..(Horizon - 1)

\* Every Cut decision has a range of positive length.
ValidCuts ==
  \A k \in 1..Len(edits) :
    edits[k].type = "cut" => edits[k].startTime < edits[k].endTime

\* C4 (as claimed, the cuts clipped to the media): for valid Cut ranges the
\* kept ranges and the merged cut ranges are pairwise non-overlapping and
\* together cover exactly [0, D).
C4_KeptAndCutsPartitionMedia ==
  (Built /\ ValidCuts) =>
    LET merged == mergeRanges(CutRangesOf(edits)).merged
        all == KeptRanges \o merged
    IN  /\ \A i, j \in 1..Len(all) : i < j => ~Overlap(all[i], all[j])
        /\ \A t \in Cells :
             /\ CoveredBy(KeptRanges, t) => t < originalDuration
             /\ t < originalDuration =>
                  (CoveredBy(KeptRanges, t) \/ CoveredBy(merged, t))

\* C5 (as claimed): whatever the Cut decisions, every segment of the built
\* timeline lies within the media: 0 <= originalStart < originalEnd <= D.
C5_SegmentsWithinMedia ==
  (Built /\ ValidCuts) =>
    \A k \in 1..Len(Segments) :
      /\ 0 <= Segments[k].originalStart
      /\ Segments[k].originalStart < Segments[k].originalEnd
      /\ Segments[k].originalEnd <= originalDuration

RECURSIVE SumPreview(_)
SumPreview(segs) ==
  IF Len(segs) = 0
    THEN 0
    ELSE (segs[1].previewEnd - segs[1].previewStart) + SumPreview(Tail(segs))

\* C6: the segments are contiguous in preview time from 0, each has a
\* positive preview length equal to its original length divided by its
\* speed factor, and the preview lengths add up to previewDuration.
C6_PreviewContiguous ==
  Built =>
    /\ Len(Segments) > 0 => Segments[1].previewStart = 0
    /\ \A k \in 2..Len(Segments) :
         Segments[k].previewStart = Segments[k - 1].previewEnd
    /\ \A k \in 1..Len(Segments) :
         /\ Segments[k].previewEnd > Segments[k].previewStart
         /\ (Segments[k].previewEnd - Segments[k].previewStart)
              * Segments[k].speedFactor
            = Segments[k].originalEnd - Segments[k].originalStart
    /\ SumPreview(Segments) = timeline.previewDuration

\* Two segments, the first of them retimed.
C6_Witness ==
  /\ Built
  /\ Len(Segments) = 2
  /\ Segments[1].speedFactor = Factor
  /\ Segments[2].previewStart = Segments[1].previewEnd
  /\ Segments[1].previewEnd < Segments[1].originalEnd

\* The starts of the maximal runs of Cut decisions that overlap or touch.
CutRunStarts(es) ==
  {s \in {CutsOf(es)[k].startTime : k \in 1..Len(CutsOf(es))} :
     ~\E k \in 1..Len(CutsOf(es)) :
        CutsOf(es)[k].startTime < s /\ s <= CutsOf(es)[k].endTime}

\* C7: cutCount is the number of runs of overlapping or touching Cut
\* decisions and totalCutDuration the length of the region the Cuts cover,
\* each part counted once; the two worked examples give the stated numbers.
C7_CutTotalsFromMerged ==
  Built =>
    /\ timeline.cutCount = Cardinality(CutRunStarts(edits))
    /\ timeline.totalCutDuration =
         Cardinality({t \in Cells : CoveredBy(CutRangesOf(edits), t)})
    /\ (originalDuration = 100 /\ edits = ExampleOverlap) =>
         (timeline.cutCount = 1 /\ timeline.totalCutDuration = 15)
    /\ (originalDuration = 100 /\ edits = ExampleTwoCuts) =>
         /\ KeptRanges = <<Range(10, 40), Range(50, 100)>>
         /\ timeline.previewDuration = 80
         /\ timeline.cutCount = 2
         /\ timeline.totalCutDuration = 20

\* Two Cut decisions that only touch have been counted as one cut.
C7_Witness ==
  /\ Built
  /\ Len(edits) = 2
  /\ edits[1].type = "cut" /\ edits[2].type = "cut"
  /\ edits[1].startTime < edits[1].endTime
  /\ edits[1].endTime = edits[2].startTime
  /\ edits[2].startTime < edits[2].endTime
  /\ timeline.cutCount = 1
  /\ timeline.totalCutDuration = edits[2].endTime - edits[1].startTime

Permuted(es) ==
  {[k \in 1..Len(es) |-> es[f[k]]] : f \in Permutations(1..Len(es))}

RangesOf(tl) ==
  [k \in 1..Len(tl.segments) |->
     Range(tl.segments[k].originalStart, tl.segments[k].originalEnd)]

\* C8: every permutation of the decision list gives the same segment
\* original ranges, cutCount and totalCutDuration, and no segment intersects
\* the range of a Cut decision.
C8_OrderIndependent ==
  Built =>
    /\ \A es \in Permuted(edits) :
         LET tl == generatePreviewTimeline(originalDuration, es)
         IN  /\ RangesOf(tl) = KeptRanges
             /\ tl.cutCount = timeline.cutCount
             /\ tl.totalCutDuration = timeline.totalCutDuration
    /\ \A k \in 1..Len(Segments), c \in 1..Len(CutRangesOf(edits)) :
         ~Overlap(KeptRanges[k], CutRangesOf(edits)[c])

\* A Speed or Keep decision listed before a Cut decision over part of the same
\* region, with media kept on both sides of the cut.
C8_Witness ==
  /\ Built
  /\ Len(edits) = 2
  /\ edits[1].type \in {"speed", "keep"}
  /\ edits[2].type = "cut"
  /\ Overlap(Range(edits[1].startTime, edits[1].endTime),
             Range(edits[2].startTime, edits[2].endTime))
  /\ Len(Segments) = 2

\* C9 (as claimed): duration 40, no cuts and one Speed decision over [20,30)
\* with factor 2 give three segments, the middle one retimed, and
\* previewDuration 35.
C9_PartialSpeedExample ==
  (Built /\ originalDuration = 40 /\ edits \in {ExampleSpeed, ExampleSpeedField}) =>
    /\ Segments =
         <<[originalStart |-> 0, originalEnd |-> 20, previewStart |-> 0,
            previewEnd |-> 20, speedFactor |-> 1, isCut |-> FALSE],
           [originalStart |-> 20, originalEnd |-> 30, previewStart |-> 20,
            previewEnd |-> 25, speedFactor |-> 2, isCut |-> FALSE],
           [originalStart |-> 30, originalEnd |-> 40, previewStart |-> 25,
            previewEnd |-> 35, speedFactor |-> 1, isCut |-> FALSE]>>
    /\ timeline.previewDuration = 35

\* The Speed decisions of a list that carry the declared parameter.
Contains(e, r) == e.startTime <= r.start /\ e.endTime >= r.end

\* C10 (as claimed): a segment's speedFactor is params.factor of the first
\* Speed decision, in input order, that contains the kept range, and 1 when
\* none contains it.
C10_FactorOfFirstSpeedDecision ==
  Built =>
    \A k \in 1..Len(Segments) :
      LET speedEdits == OfType(edits, "speed")
          hits == {i \in 1..Len(speedEdits) : Contains(speedEdits[i], KeptRanges[k])}
      IN  /\ hits = {} => Segments[k].speedFactor = 1
          /\ \A i \in hits :
               ((\A j \in hits : i <= j) /\ speedEdits[i].params.factor # Absent)
                 => Segments[k].speedFactor = speedEdits[i].params.factor

-----------------------------------------------------------------------------
(* The time mapper on the built timeline *)

\* The original times at which the mapper is probed: the whole seconds up to
\* the last time any input names, those a segment's speed factor divides
\* exactly.
OriginalTimes ==
  {t \in 0..Horizon :
     \A k \in 1..Len(Segments) :
       (Segments[k].originalStart <= t /\ t < Segments[k].originalEnd)
         => (t - Segments[k].originalStart) % Segments[k].speedFactor = 0}

\* The preview times at which the mapper is probed.
PreviewTimes == 0..(timeline.previewDuration + 2)

\* C11: for every original time t that maps to a preview time, mapping that
\* preview time back gives t.
C11_RoundTrip ==
  Built =>
    \A t \in OriginalTimes :
      LET p == originalToPreviewTime(t, timeline)
      IN  p # Null => previewToOriginalTime(p, timeline) = t

\* A retimed segment that starts after a cut and has a time strictly inside.
C11_Witness ==
  /\ Built
  /\ \E k \in 1..Len(Segments) :
       /\ Segments[k].speedFactor = Factor
       /\ Segments[k].originalStart > 0
       /\ \E t \in OriginalTimes :
            /\ Segments[k].originalStart < t /\ t < Segments[k].originalEnd
            /\ previewToOriginalTime(originalToPreviewTime(t, timeline), timeline) = t

\* C12: originalToPreviewTime(t) is previewStart + (t - originalStart) /
\* speedFactor of the segment that contains t, and null exactly when no
\* segment contains t; for 0 <= t < duration null means t lies in a Cut.
C12_OriginalToPreview ==
  Built =>
    \A t \in OriginalTimes :
      LET p == originalToPreviewTime(t, timeline)
          hits == {k \in 1..Len(Segments) :
                     Segments[k].originalStart <= t /\ t < Segments[k].originalEnd}
      IN  /\ (p = Null) <=> (hits = {})
          /\ \A k \in hits :
               (p - Segments[k].previewStart) * Segments[k].speedFactor
                 = t - Segments[k].originalStart
          /\ (p = Null /\ t < originalDuration)
               => CoveredBy(CutRangesOf(edits), t)

\* A timeline with a cut inside the media: the time where the cut ends maps
\* to the start of the segment after it, a time within the cut to null.
C12_Witness ==
  /\ Built
  /\ Len(Segments) = 2
  /\ originalToPreviewTime(Segments[1].originalEnd, timeline) = Null
  /\ originalToPreviewTime(Segments[2].originalStart, timeline)
       = Segments[2].previewStart

\* C13: previewToOriginalTime gives the last segment's originalEnd for every
\* preview time at or beyond the last segment's previewEnd, and 0 for a
\* timeline without segments.
C13_PreviewToOriginalClamps ==
  Built =>
    \A p \in PreviewTimes :
      /\ Len(Segments) = 0 => previewToOriginalTime(p, timeline) = 0
      /\ (Len(Segments) > 0 /\ p >= Last(Segments).previewEnd)
           => previewToOriginalTime(p, timeline) = Last(Segments).originalEnd

\* The last segment is retimed and ends before the media does: the clamp
\* gives an original time that is no preview time.
C13_Witness ==
  /\ Built
  /\ Len(Segments) > 0
  /\ Last(Segments).originalEnd # Last(Segments).previewEnd
  /\ previewToOriginalTime(timeline.previewDuration + 1, timeline)
       = Last(Segments).originalEnd

(* The two merges on their own *)

\* A valid range ends no earlier than it starts.
ValidRanges ==
  {Range(a, b) : <<a, b>> \in {p \in TimePoints \X TimePoints : p[1] <= p[2]}}

InitMerge ==
  /\ InitStore
  /\ IdleTimeline
  /\ IdleQuick
  /\ IdleCommand
  /\ IdleMigrations
  /\ rangesIn \in SeqsUpTo(ValidRanges, MaxRanges)
  /\ mergeOut = {}

\* The ranges as the command interpreter holds them, and back.
AsTimeRanges(ranges) ==
  [k \in 1..Len(ranges) |-> TimeRange(ranges[k].start, ranges[k].end)]

AsRanges(ranges) ==
  [k \in 1..Len(ranges) |-> Range(ranges[k].startTime, ranges[k].endTime)]

MergeRanges ==
  /\ mergeOut' = mergeOut \cup
       {[by |-> "mergeRanges", merged |-> mergeRanges(rangesIn).merged]}
  /\ UNCHANGED rangesIn
  /\ UNCHANGED mergeFrame

MergeOverlappingRanges ==
  /\ mergeOut' = mergeOut \cup
       {[by |-> "mergeOverlappingRanges",
         merged |-> AsRanges(mergeOverlappingRanges(AsTimeRanges(rangesIn)).merged)]}
  /\ UNCHANGED rangesIn
  /\ UNCHANGED mergeFrame

NextMerge == MergeRanges \/ MergeOverlappingRanges

SpecMerge == InitMerge /\ [][NextMerge]_vars

\* The merge of a list by the function that produced a result.
MergeBy(by, ranges) ==
  IF by = "mergeRanges"
    THEN mergeRanges(ranges).merged
    ELSE AsRanges(mergeOverlappingRanges(AsTimeRanges(ranges)).merged)

MergeCells == 0..(Factor * MaxTick - 1)

\* C14: the merge of a list of valid ranges is sorted by start, its ranges
\* neither overlap nor touch, it covers exactly the times the list covers,
\* and merging it again gives it back; for mergeRanges and for
\* mergeOverlappingRanges.
C14_MergeNormalForm ==
  \A o \in mergeOut :
    LET m == o.merged
    IN  /\ \A k \in 1..(Len(m) - 1) :
             /\ m[k].start < m[k + 1].start
             /\ m[k].end < m[k + 1].start
        /\ \A t \in MergeCells : CoveredBy(m, t) <=> CoveredBy(rangesIn, t)
        /\ MergeBy(o.by, m) = m

\* Both functions have merged a list in which one range lies inside another
\* and a third one stands apart.
C14_Witness ==
  /\ {o.by : o \in mergeOut} = {"mergeRanges", "mergeOverlappingRanges"}
  /\ \E i, j \in 1..Len(rangesIn) :
       /\ i # j
       /\ rangesIn[i].start <= rangesIn[j].start
       /\ rangesIn[j].end < rangesIn[i].end
  /\ \A o \in mergeOut : Len(o.merged) = 2

(* Zero-length cuts *)

\* The list without its k-th decision.
Without(es, k) == SubSeq(es, 1, k - 1) \o SubSeq(es, k + 1, Len(es))

\* C15 (as claimed): a Cut decision of zero length within the media changes
\* nothing; the timeline built from the list equals, in segments,
\* previewDuration, cutCount and totalCutDuration, the one built from the
\* list without that decision.
C15_ZeroLengthCutDropped ==
  (Built /\ \A k \in 1..Len(edits) : edits[k].startTime <= originalDuration) =>
    \A k \in 1..Len(edits) :
      (edits[k].type = "cut" /\ edits[k].startTime = edits[k].endTime) =>
        LET other == generatePreviewTimeline(originalDuration, Without(edits, k))
        IN  /\ timeline.segments = other.segments
            /\ timeline.previewDuration = other.previewDuration
            /\ timeline.cutCount = other.cutCount
            /\ timeline.totalCutDuration = other.totalCutDuration

(* Operations that change nothing in the decision list *)

\* The ids no decision of the list has.
AbsentIds == {id \in 1..(NumIds + 1) : \A k \in 1..Len(aiEdits) : aiEdits[k].id # id}

\* C16: removeEdit with an id that no decision has leaves the decision list
\* as it is, pushes that list on the undo stack and empties the redo stack.
C16_RemoveAbsentId ==
  [][/\ \A id \in AbsentIds : removeEdit(Get, id).aiEdits = aiEdits
     /\ (lastCall' = "removeEdit" /\ aiEdits' = aiEdits) =>
          /\ undoStack' = Append(undoStack, aiEdits)
          /\ redoStack' = <<>>]_vars

\* removeEdit has run on a non-empty list with an id that no decision has:
\* the snapshot it pushed is the list itself.
C16_Witness ==
  /\ lastCall = "removeEdit"
  /\ aiEdits # <<>>
  /\ undoStack # <<>>
  /\ Last(undoStack) = aiEdits
  /\ redoStack = <<>>

\* C17: clearEdits on an empty list, undo on an empty undo stack and redo on
\* an empty redo stack leave the list, the undo stack and the redo stack as
\* they are.
C17_EmptyOperationsChangeNothing ==
  [][(\/ (lastCall' = "clearEdits" /\ aiEdits = <<>>)
      \/ (lastCall' = "undo" /\ undoStack = <<>>)
      \/ (lastCall' = "redo" /\ redoStack = <<>>))
       => UNCHANGED <<aiEdits, undoStack, redoStack>>]_vars

\* clearEdits has run on an empty list: the redo stack, which a clear of a
\* non-empty list empties, still holds a snapshot.
C17_Witness ==
  /\ lastCall = "clearEdits"
  /\ aiEdits = <<>>
  /\ redoStack # <<>>

(* The quick commands on their own *)

Words(ws) == [k \in 1..Len(ws) |-> Word(ws[k])]

AllUpper(cmd) == [k \in 1..Len(cmd) |-> [cmd[k] EXCEPT !.upper = (cmd[k].word # "#")]]

\* The four commands of QUICK_COMMANDS (the pause command with a threshold
\* of one second as well), commands that trigger several rules, commands in
\* upper case, and commands that trigger none.
RemoveAllSilence == Words(<<"remove", "all", "silence">>)

CutFillerWords == Words(<<"cut", "filler", "words">>)

KeepOnlyTalkingSegments == Words(<<"keep", "only", "talking", "segments">>)

RemovePausesLongerThan(n) ==
  Words(<<"remove", "pauses", "longer", "than">>) \o <<Number(n), Word("seconds")>>

\* "Remove all silence longer than [X] seconds"
RemoveAllSilenceLongerThan(n) ==
  Words(<<"remove", "all", "silence", "longer", "than">>)
    \o <<Number(n), Word("seconds")>>

Commands ==
  { RemoveAllSilence,
    CutFillerWords,
    KeepOnlyTalkingSegments,
    RemovePausesLongerThan(1),
    RemovePausesLongerThan(2),
    AllUpper(RemoveAllSilence),
    AllUpper(KeepOnlyTalkingSegments),
    AllUpper(RemovePausesLongerThan(1)),
    Words(<<"remove", "silence", "and", "cut", "filler", "words">>),
    Words(<<"cut", "the", "um", "and", "keep", "the", "speech">>),
    Words(<<"keep", "talking", "and", "remove", "pauses", "over">>)
      \o <<Number(1), Word("seconds")>>,
    RemoveAllSilenceLongerThan(1),
    Words(<<"remove", "pauses">>),
    Words(<<"make", "it", "shorter">>) }

Annotation(type, startTime, endTime) ==
  [type |-> type, startTime |-> startTime, endTime |-> endTime]

Annotations ==
  {Annotation(type, a, b) :
     type \in {"silence", "talking", "filler"},
     <<a, b>> \in {p \in (0..AnnTick) \X (0..AnnTick) : p[1] < p[2]}}

TranscriptSegment(startTime, endTime, isFiller) ==
  [startTime |-> startTime, endTime |-> endTime, isFiller |-> isFiller]

Transcripts ==
  { <<>>,
    <<TranscriptSegment(0, 1, TRUE)>>,
    <<TranscriptSegment(0, 1, FALSE), TranscriptSegment(1, 2, TRUE)>> }

Analyses ==
  {VideoAnalysis(d, anns, tr) :
     d \in {AnnTick, AnnTick + 1},
     anns \in SeqsUpTo(Annotations, MaxAnn),
     tr \in Transcripts}

InitQuick ==
  /\ InitStore
  /\ IdleTimeline
  /\ IdleMerge
  /\ command \in Commands
  /\ videoAnalysis \in Analyses
  /\ quickResult = NotCalled
  /\ IdleCommand
  /\ IdleMigrations

TryQuickCommand ==
  /\ quickResult' = tryQuickCommand(command, videoAnalysis)
  /\ UNCHANGED <<command, videoAnalysis>>
  /\ UNCHANGED quickFrame

NextQuick == TryQuickCommand

SpecQuick == InitQuick /\ [][NextQuick]_vars

Answered == quickResult.returned # "not called"

\* The rules a text triggers, by priority.
Triggered(text) ==
  {r \in 1..4 :
     \/ (r = 1 /\ TriggersRemoveSilence(text))
     \/ (r = 2 /\ TriggersCutFillers(text))
     \/ (r = 3 /\ TriggersKeepTalking(text))
     \/ (r = 4 /\ TriggersRemoveLongPauses(text))}

First(S) == CHOOSE x \in S : \A y \in S : x <= y

\* What rule r returns on its own.
RuleAlone(r, cmd, theAnalysis) ==
  CASE r = 1 -> RemoveSilence(cmd, theAnalysis)
    [] r = 2 -> CutFillers(cmd, theAnalysis)
    [] r = 3 -> KeepTalking(cmd, theAnalysis)
    [] r = 4 -> RemoveLongPauses(cmd, theAnalysis, PauseThreshold(toLowerCase(cmd)))

\* A result without the command it quotes.
Outcome(res) ==
  [returned |-> res.returned, success |-> res.success,
   interpretation |-> res.interpretation,
   edits |-> [k \in 1..Len(res.edits) |-> [res.edits[k] EXCEPT !.command = <<>>]],
   affectedTimeRanges |-> res.affectedTimeRanges, error |-> res.error]

\* C19: the result of tryQuickCommand is the result of the first rule, in the
\* order remove-silence, cut-fillers, keep-talking-only, remove-pauses-over-N,
\* that the lower-cased command triggers, and null when it triggers none; the
\* same command in upper case has the same outcome.
C19_FirstTriggeredRuleAlone ==
  Answered =>
    LET triggered == Triggered(toLowerCase(command))
    IN  /\ quickResult =
             IF triggered = {}
               THEN ReturnedNull
               ELSE RuleAlone(First(triggered), command, videoAnalysis)
        /\ Outcome(tryQuickCommand(AllUpper(command), videoAnalysis))
             = Outcome(quickResult)

\* A command that triggers the silence rule and the filler rule was answered
\* by the silence rule, on an analysis where the filler rule has cuts to make.
C19_Witness ==
  /\ Answered
  /\ {1, 2} \subseteq Triggered(toLowerCase(command))
  /\ quickResult.edits # <<>>
  /\ \A k \in 1..Len(quickResult.edits) :
       quickResult.edits[k].params.reason = "silence"
  /\ AnnotationsOfType(videoAnalysis, "filler") # <<>>

TalkingRanges ==
  LET talking == AnnotationsOfType(videoAnalysis, "talking")
  IN  [k \in 1..Len(talking) |-> Range(talking[k].startTime, talking[k].endTime)]

\* C20 (as claimed): for a keep-only-talking command on an analysis with a
\* talking annotation, no Cut overlaps a talking annotation and every second
\* of [0, duration) is in a Cut or in a talking annotation.
C20_CutsAreTheGapsOfTalking ==
  (/\ Answered
   /\ Triggered(toLowerCase(command)) # {}
   /\ First(Triggered(toLowerCase(command))) = 3
   /\ TalkingRanges # <<>>) =>
    LET cuts == AffectedOf(quickResult.edits)
    IN  /\ \A i \in 1..Len(cuts), j \in 1..Len(TalkingRanges) :
             ~Overlap(cuts[i], TalkingRanges[j])
        /\ \A t \in 0..(videoAnalysis.duration - 1) :
             CoveredBy(cuts, t) \/ CoveredBy(TalkingRanges, t)

-----------------------------------------------------------------------------
(* Commands through the store (executeCommand, interpretCommand) *)

\* commandHistory.slice(0, 49)
HistoryKept == 49

\* nanoid(): the k-th decision made for a call has an id no other has.
FreshId(call, k) == call * (MaxAnn + 2) + k

\* The decisions of a result with their ids.
Identified(es, call) ==
  [k \in 1..Len(es) |->
     [id |-> FreshId(call, k), type |-> es[k].type,
      startTime |-> es[k].startTime, endTime |-> es[k].endTime,
      params |-> es[k].params, command |-> es[k].command]]

\* What an awaited promise settles to: a value, or a rejection with the
\* message of the Error thrown.
Resolved(result) == [rejected |-> FALSE, result |-> result, message |-> ""]

Rejected(message) == [rejected |-> TRUE, result |-> ReturnedNull, message |-> message]

\* error instanceof Error ? error.message : "Unknown error"
MessageOf(reply) == IF reply.isError THEN reply.error ELSE "Unknown error"

FailedToInterpret(cmd, message) ==
  CommandResult(FALSE, cmd, Interpretation("Failed to interpret command", 0),
                <<>>, <<>>, message)

\* interpretCommand(command, analysis): the quick command first; then the
\* client, whose getter throws outside the try when no key is set; then the
\* request, whose reply is mapped inside the try.  A reply without an edits
\* array makes result.edits.map throw a TypeError, which the catch turns into
\* a result.
interpretCommand(cmd, theAnalysis, hasClient, reply, call) ==
  LET quick == tryQuickCommand(cmd, theAnalysis)
  IN  IF quick.returned = "result"
        THEN Resolved([quick EXCEPT !.edits = Identified(quick.edits, call)])
      ELSE IF ~hasClient
        THEN Rejected("Google API key not set. Please configure your API key in settings.")
      ELSE IF reply.kind = "throws"
        THEN Resolved(FailedToInterpret(cmd, MessageOf(reply)))
      ELSE IF ~reply.hasEdits
        THEN Resolved(FailedToInterpret(cmd,
               "Cannot read properties of undefined (reading 'map')"))
      ELSE LET es == Identified(
                       [k \in 1..Len(reply.edits) |->
                          [reply.edits[k] EXCEPT !.command = cmd]], call)
           IN  Resolved(CommandResult(reply.success, cmd, reply.interpretation,
                                      es, AffectedOf(es), reply.error))

\* The result executeCommand returns for what interpretCommand settled to.
ResultOf(cmd, settled) ==
  IF settled.rejected
    THEN CommandResult(FALSE, cmd, Interpretation("Command execution failed", 0),
                       <<>>, <<>>, settled.message)
    ELSE settled.result

NoAnalysisResult(cmd) ==
  CommandResult(FALSE, cmd, Interpretation("No video analysis available", 0),
                <<>>, <<>>,
                "Please analyze the video first before running commands.")

\* The inputs: one command that a quick rule answers and one that goes to
\* the interpreter; two analyses; the replies of the interpreter.
MakeItShorter == Words(<<"make", "it", "shorter">>)

StoreCommands == {RemoveAllSilence, MakeItShorter}

StoreAnalyses ==
  { VideoAnalysis(2, <<Annotation("silence", 0, 1)>>, <<>>),
    VideoAnalysis(2, <<Annotation("talking", 0, 1)>>, <<>>) }

ReplyEdit ==
  [type |-> "cut", startTime |-> 0, endTime |-> 1,
   params |-> [reason |-> Undefined], command |-> <<>>]

Replies ==
  { Reply("json", TRUE, Interpretation("Cutting the intro.", 0), TRUE,
          <<ReplyEdit>>, Undefined, FALSE),
    Reply("json", TRUE, Interpretation("Nothing to do.", 0), TRUE,
          <<>>, Undefined, FALSE),
    Reply("json", FALSE, Interpretation("Cannot do that.", 0), TRUE,
          <<>>, "The command cannot be fulfilled.", FALSE),
    Reply("json", FALSE, Interpretation("Cannot do that.", 0), TRUE,
          <<ReplyEdit>>, Undefined, FALSE),
    Reply("json", TRUE, Interpretation("", 0), FALSE, <<>>, Undefined, FALSE),
    Reply("throws", FALSE, Interpretation("", 0), FALSE, <<>>,
          "Invalid JSON response from AI", TRUE),
    Reply("throws", FALSE, Interpretation("", 0), FALSE, <<>>,
          "not an Error", FALSE) }

\* An executeCommand call in flight: what it read from the store when it was
\* made, and whether interpretCommand got a client.
Call(call, cmd, theAnalysis, history, hasClient) ==
  [call |-> call, command |-> cmd, analysis |-> theAnalysis,
   commandHistory |-> history, hasClient |-> hasClient]

\* startAnalysis has completed with an analysis.
SetAnalysis ==
  \E a \in StoreAnalyses :
    /\ analysis' = <<a>>
    /\ Called("startAnalysis")
    /\ UNCHANGED <<aiEdits, undoStack, redoStack, otherVars, cmdVars>>

\* executeCommand(command) up to its await.  Without an analysis it returns a
\* failed result at once.  getGoogleAIClient is reached only when no quick
\* rule answers; it makes the client when a key is set.
ExecuteCommand ==
  \E cmd \in StoreCommands, apiKey \in BOOLEAN :
    /\ calls < MaxCalls
    /\ calls' = calls + 1
    /\ Called("executeCommand")
    /\ IF analysis = <<>>
         THEN /\ lastCommandResult' = NoAnalysisResult(cmd)
              /\ returned' = Returned(calls + 1, NoReply, NoAnalysisResult(cmd))
              /\ UNCHANGED <<isProcessingCommand, pending, clientInstance>>
         ELSE LET asks == tryQuickCommand(cmd, analysis[1]).returned # "result"
                  hasClient == clientInstance \/ apiKey
              IN  /\ isProcessingCommand' = TRUE
                  /\ clientInstance' = IF asks THEN hasClient ELSE clientInstance
                  /\ pending' = pending \cup
                       {Call(calls + 1, cmd, analysis[1], commandHistory,
                             hasClient)}
                  /\ UNCHANGED <<lastCommandResult, returned>>
    /\ UNCHANGED <<aiEdits, undoStack, redoStack, analysis, commandHistory,
                   otherVars>>

\* The rest of executeCommand for a call whose interpretCommand has settled.
Continue(p, reply) ==
  LET settled == interpretCommand(p.command, p.analysis, p.hasClient, reply, p.call)
      result == ResultOf(p.command, settled)
  IN  /\ IF ~settled.rejected /\ result.success /\ Len(result.edits) > 0
           THEN Set(addEdits(Get, result.edits))
           ELSE UNCHANGED <<aiEdits, undoStack, redoStack>>
      /\ isProcessingCommand' = FALSE
      /\ lastCommandResult' = result
      /\ commandHistory' =
           IF settled.rejected
             THEN commandHistory
             ELSE <<p.command>> \o
                  SubSeq(p.commandHistory, 1,
                         IF Len(p.commandHistory) < HistoryKept
                           THEN Len(p.commandHistory) ELSE HistoryKept)
      /\ pending' = pending \ {p}
      /\ returned' = Returned(p.call, reply, result)
      /\ Called("executeCommand returns")
      /\ UNCHANGED <<analysis, clientInstance, calls, otherVars>>

\* A call returns without a reply of the interpreter: a quick rule answered,
\* or there was no client.
ReturnUnasked ==
  \E p \in pending :
    /\ \/ tryQuickCommand(p.command, p.analysis).returned = "result"
       \/ ~p.hasClient
    /\ Continue(p, NoReply)

\* The interpreter replies to the request of a call.
InterpreterReplies ==
  \E p \in pending, reply \in Replies :
    /\ tryQuickCommand(p.command, p.analysis).returned # "result"
    /\ p.hasClient
    /\ Continue(p, reply)

NextCommand ==
  \/ SetAnalysis
  \/ ExecuteCommand
  \/ ReturnUnasked
  \/ InterpreterReplies
  \/ ClearAnalysis
  \/ ClearEdits
  \/ Undo
  \/ Redo

SpecCommand == Init /\ [][NextCommand]_vars

\* The interpreter threw, or its reply reports failure or has no edits array.
InterpreterFailed(reply) ==
  \/ reply.kind = "throws"
  \/ (reply.kind = "json" /\ (~reply.hasEdits \/ ~reply.success))

\* C18 (as claimed): when the interpreter of a call throws or replies with a
\* failed or malformed result, the call returns success = false, a non-empty
\* error and no edits, and leaves the decision list, the undo stack and the
\* redo stack as they are.
C18_FailedCommandNotApplied ==
  [][(returned'.call # returned.call /\ InterpreterFailed(returned'.reply)) =>
       /\ returned'.result.success = FALSE
       /\ returned'.result.error \notin {Undefined, ""}
       /\ returned'.result.edits = <<>>
       /\ UNCHANGED <<aiEdits, undoStack, redoStack>>]_vars

-----------------------------------------------------------------------------
(* The rules of tryQuickCommand one by one *)

\* The call was answered by rule r: the first one the command triggers.
AnsweredBy(r) ==
  /\ Answered
  /\ Triggered(toLowerCase(command)) # {}
  /\ First(Triggered(toLowerCase(command))) = r

QuickCuts == AffectedOf(quickResult.edits)

\* The ranges of the filler annotations and of the transcript segments
\* flagged isFiller.
FillerRanges ==
  LET anns == SelectSeq(videoAnalysis.annotations, LAMBDA a : a.type = "filler")
      segs == SelectSeq(videoAnalysis.transcript, LAMBDA t : t.isFiller)
  IN  [k \in 1..Len(anns) |-> Range(anns[k].startTime, anns[k].endTime)]
      \o [k \in 1..Len(segs) |-> Range(segs[k].startTime, segs[k].endTime)]

QuickCells == 0..(AnnTick + 1)

\* C21: the Cuts of a cut-fillers command neither overlap nor touch each
\* other, cover exactly the times that a filler annotation or a filler
\* transcript segment covers, and affectedTimeRanges lists their ranges in
\* the same order.
C21_FillerCutsAreTheMergedFillers ==
  AnsweredBy(2) =>
    /\ \A k \in 1..Len(quickResult.edits) : quickResult.edits[k].type = "cut"
    /\ \A i, j \in 1..Len(QuickCuts) :
         i # j => /\ ~Overlap(QuickCuts[i], QuickCuts[j])
                  /\ QuickCuts[i].end # QuickCuts[j].start
    /\ \A t \in QuickCells : CoveredBy(QuickCuts, t) <=> CoveredBy(FillerRanges, t)
    /\ quickResult.affectedTimeRanges = QuickCuts

\* A cut-fillers command has made one Cut of a filler annotation and a filler
\* transcript segment that touch or overlap.
C21_Witness ==
  /\ AnsweredBy(2)
  /\ Len(quickResult.edits) = 1
  /\ \E a \in 1..Len(videoAnalysis.annotations) :
       /\ videoAnalysis.annotations[a].type = "filler"
       /\ \E t \in 1..Len(videoAnalysis.transcript) :
            /\ videoAnalysis.transcript[t].isFiller
            /\ videoAnalysis.transcript[t].endTime
                 > videoAnalysis.annotations[a].endTime

SilenceAnnotations ==
  SelectSeq(videoAnalysis.annotations, LAMBDA a : a.type = "silence")

\* C22: a remove-silence command succeeds with one Cut per silence
\* annotation, in annotation order, with the annotation's start and end and
\* the reason "silence", and affectedTimeRanges holds the same ranges;
\* nothing else is cut.
C22_OneCutPerSilence ==
  AnsweredBy(1) =>
    /\ quickResult.success
    /\ quickResult.edits =
         [k \in 1..Len(SilenceAnnotations) |->
            CutEdit(SilenceAnnotations[k].startTime,
                    SilenceAnnotations[k].endTime, "silence", command)]
    /\ quickResult.affectedTimeRanges =
         [k \in 1..Len(SilenceAnnotations) |->
            Range(SilenceAnnotations[k].startTime, SilenceAnnotations[k].endTime)]

\* A remove-silence command on a silence annotation and an annotation of
\* another type has made one Cut.
C22_Witness ==
  /\ AnsweredBy(1)
  /\ Len(videoAnalysis.annotations) = 2
  /\ Len(quickResult.edits) = 1
  /\ videoAnalysis.annotations[1].type # "silence"

\* The numbers written in the command.
NumbersIn(cmd) == {cmd[k].value : k \in {i \in 1..Len(cmd) : cmd[i].word = "#"}}

ByPauseRule ==
  quickResult.interpretation.text \in
    {"No pauses longer than T seconds found.",
     "Found N pauses longer than Ts to remove."}

\* The silence annotations longer than n seconds.
LongerThan(n) ==
  SelectSeq(videoAnalysis.annotations,
            LAMBDA a : a.type = "silence" /\ a.endTime - a.startTime > n)

\* C23: the pause rule answers only a command with a number N in it, and
\* then cuts exactly the silence annotations longer than N; a command that
\* triggers no rule, such as a pause command without a number, gets null, and
\* interpretCommand then returns what the interpreter's reply holds.
C23_PauseRuleNeedsThreshold ==
  Answered =>
    /\ ByPauseRule => NumbersIn(command) # {}
    /\ AnsweredBy(4) =>
         /\ ByPauseRule
         /\ \E n \in NumbersIn(command) :
              quickResult.edits =
                [k \in 1..Len(LongerThan(n)) |->
                   CutEdit(LongerThan(n)[k].startTime, LongerThan(n)[k].endTime,
                           "long pause", command)]
    /\ (/\ NumbersIn(command) = {}
        /\ \A r \in 1..3 : r \notin Triggered(toLowerCase(command))) =>
         /\ quickResult = ReturnedNull
         /\ \A reply \in {x \in Replies : x.kind = "json" /\ x.hasEdits} :
              LET settled == interpretCommand(command, videoAnalysis, TRUE, reply, 1)
              IN  /\ ~settled.rejected
                  /\ settled.result.success = reply.success
                  /\ settled.result.interpretation = reply.interpretation
                  /\ Len(settled.result.edits) = Len(reply.edits)

\* The pause rule has answered on a silence of exactly N seconds, which it
\* left, and a longer one, which it cut.
C23_Witness ==
  /\ AnsweredBy(4)
  /\ Len(SilenceAnnotations) = 2
  /\ Len(quickResult.edits) = 1
  /\ \E k \in 1..2 :
       SilenceAnnotations[k].endTime - SilenceAnnotations[k].startTime
         \in NumbersIn(command)

\* C24 (as claimed): "Remove all silence longer than X seconds" cuts the
\* silence annotations longer than X seconds and no other.
C24_SilenceLongerThanX ==
  \A x \in NumbersIn(command) :
    (Answered /\ toLowerCase(command) = RemoveAllSilenceLongerThan(x)) =>
      \A k \in 1..Len(quickResult.edits) :
        quickResult.edits[k].endTime - quickResult.edits[k].startTime > x

-----------------------------------------------------------------------------
(* The export plan (useAIExport: getExportSegments, generateFFmpegFilter) *)

\* exportInfo.previewTimeline: null, the empty list, without decisions; the
\* list that holds the built timeline otherwise.
PreviewTimelineOf(es, tl) == IF Len(es) = 0 THEN <<>> ELSE <<tl>>

\* getExportSegments(): null, the empty list, or the list that holds the
\* array returned.
getExportSegments(previewTimeline) ==
  IF previewTimeline = <<>>
    THEN <<>>
    ELSE LET segments == previewTimeline[1].segments
         IN  <<[k \in 1..Len(segments) |->
                  [start |-> segments[k].originalStart,
                   end |-> segments[k].originalEnd,
                   speed |-> segments[k].speedFactor]]>>

\* A stream label: [0:v], [v3], [v3s], [outv].  index is the index of the
\* segment, from 0, and Null where the label has none.
Label(name, index, sped) == [name |-> name, index |-> index, sped |-> sped]

\* One filter of the graph: its kind, the labels it reads, start and end of
\* a trim, the factor written into it as numerator and denominator, the
\* count n of a concat, and the label it writes.
Filter(kind, inputs, start, end, factor, n, out) ==
  [kind |-> kind, inputs |-> inputs, start |-> start, end |-> end,
   factor |-> factor, n |-> n, out |-> out]

\* The filters pushed for the segment of index i, and the labels pushed to
\* videoLabels and audioLabels.
SegmentFilters(segment, i) ==
  <<Filter("trim", <<Label("0:v", Null, FALSE)>>, segment.originalStart,
           segment.originalEnd, <<1, 1>>, 0, Label("v", i, FALSE)),
    Filter("atrim", <<Label("0:a", Null, FALSE)>>, segment.originalStart,
           segment.originalEnd, <<1, 1>>, 0, Label("a", i, FALSE))>>
  \o (IF segment.speedFactor # 1
        THEN <<Filter("setpts", <<Label("v", i, FALSE)>>, 0, 0,
                      <<1, segment.speedFactor>>, 0, Label("v", i, TRUE)),
               Filter("atempo", <<Label("a", i, FALSE)>>, 0, 0,
                      <<segment.speedFactor, 1>>, 0, Label("a", i, TRUE))>>
        ELSE <<>>)

FinalLabel(name, segment, i) == Label(name, i, segment.speedFactor # 1)

RECURSIVE AllSegmentFilters(_, _)
AllSegmentFilters(segments, k) ==
  IF k > Len(segments)
    THEN <<>>
    ELSE SegmentFilters(segments[k], k - 1) \o AllSegmentFilters(segments, k + 1)

\* A slip: the concat reads the trimmed streams, also of a retimed segment.
generateFFmpegFilterTrimmedOnly(previewTimeline) ==
  IF previewTimeline = <<>>
    THEN <<>>
    ELSE LET segments == previewTimeline[1].segments
             videoLabels == [k \in 1..Len(segments) |-> Label("v", k - 1, FALSE)]
             audioLabels == [k \in 1..Len(segments) |-> Label("a", k - 1, FALSE)]
             concat ==
               IF Len(segments) > 1
                 THEN <<Filter("concat", videoLabels, 0, 0, <<1, 1>>,
                               Len(segments), Label("outv", Null, FALSE)),
                        Filter("aconcat", audioLabels, 0, 0, <<1, 1>>,
                               Len(segments), Label("outa", Null, FALSE))>>
                 ELSE <<>>
         IN  IF Len(segments) = 0
               THEN <<>>
               ELSE <<[filter_complex |-> AllSegmentFilters(segments, 1) \o concat,
                       output_maps |-> IF Len(segments) > 1
                                         THEN <<"-map", "[outv]", "-map", "[outa]">>
                                         ELSE <<>>]>>

\* generateFFmpegFilter(): null, the empty list, or the list that holds the
\* object returned; filter_complex is the list of filters that join(";")
\* writes out.
generateFFmpegFilter(previewTimeline) ==
  IF previewTimeline = <<>>
    THEN <<>>
    ELSE LET segments == previewTimeline[1].segments
             videoLabels == [k \in 1..Len(segments) |->
                               FinalLabel("v", segments[k], k - 1)]
             audioLabels == [k \in 1..Len(segments) |->
                               FinalLabel("a", segments[k], k - 1)]
             concat ==
               IF Len(segments) > 1
                 THEN <<Filter("concat", videoLabels, 0, 0, <<1, 1>>,
                               Len(segments), Label("outv", Null, FALSE)),
                        Filter("aconcat", audioLabels, 0, 0, <<1, 1>>,
                               Len(segments), Label("outa", Null, FALSE))>>
                 ELSE <<>>
         IN  IF Len(segments) = 0
               THEN <<>>
               ELSE <<[filter_complex |-> AllSegmentFilters(segments, 1) \o concat,
                       output_maps |-> IF Len(segments) > 1
                                         THEN <<"-map", "[outv]", "-map", "[outa]">>
                                         ELSE <<>>]>>

\* The plan of the built timeline.
ExportSegments == getExportSegments(PreviewTimelineOf(edits, timeline))

FilterGraph == generateFFmpegFilter(PreviewTimelineOf(edits, timeline))[1].filter_complex

HasPlan == Built /\ Len(edits) > 0 /\ Len(Segments) > 0

\* The filters of a kind, in the order of the graph.
OfKind(kinds) == SelectSeq(FilterGraph, LAMBDA f : f.kind \in kinds)

\* The stream of segment k that no later filter of the segment reads.
FinalStream(name, k) ==
  LET writers == {i \in 1..Len(FilterGraph) :
                    /\ FilterGraph[i].out.name = name
                    /\ FilterGraph[i].out.index = k - 1}
  IN  FilterGraph[SetMax(writers)].out

\* C25: getExportSegments lists start, end and speed of the segments in
\* order; the filter graph trims video and audio once per segment to the
\* segment's original range, retimes segment i exactly when its speedFactor
\* is not 1 (video by 1/speed, audio tempo by speed), and concatenates
\* exactly when there are several segments, reading the final stream of
\* every segment in order with n the number of segments.
C25_ExportPlanFollowsSegments ==
  HasPlan =>
    /\ ExportSegments =
         <<[k \in 1..Len(Segments) |->
              [start |-> Segments[k].originalStart,
               end |-> Segments[k].originalEnd,
               speed |-> Segments[k].speedFactor]]>>
    /\ \A kind \in {"trim", "atrim"} :
         /\ Len(OfKind({kind})) = Len(Segments)
         /\ \A k \in 1..Len(Segments) :
              /\ OfKind({kind})[k].start = Segments[k].originalStart
              /\ OfKind({kind})[k].end = Segments[k].originalEnd
              /\ OfKind({kind})[k].out.index = k - 1
    /\ \A k \in 1..Len(Segments) :
         LET retimes == SelectSeq(FilterGraph,
                          LAMBDA f : /\ f.kind \in {"setpts", "atempo"}
                                     /\ f.out.index = k - 1)
         IN  IF Segments[k].speedFactor = 1
               THEN retimes = <<>>
               ELSE /\ Len(retimes) = 2
                    /\ retimes[1].kind = "setpts"
                    /\ retimes[1].factor = <<1, Segments[k].speedFactor>>
                    /\ retimes[1].inputs = <<Label("v", k - 1, FALSE)>>
                    /\ retimes[2].kind = "atempo"
                    /\ retimes[2].factor = <<Segments[k].speedFactor, 1>>
                    /\ retimes[2].inputs = <<Label("a", k - 1, FALSE)>>
    /\ IF Len(Segments) > 1
         THEN /\ Len(OfKind({"concat"})) = 1
              /\ Len(OfKind({"aconcat"})) = 1
              /\ OfKind({"concat"})[1].n = Len(Segments)
              /\ OfKind({"aconcat"})[1].n = Len(Segments)
              /\ OfKind({"concat"})[1].inputs =
                   [k \in 1..Len(Segments) |-> FinalStream("v", k)]
              /\ OfKind({"aconcat"})[1].inputs =
                   [k \in 1..Len(Segments) |-> FinalStream("a", k)]
         ELSE OfKind({"concat", "aconcat"}) = <<>>

\* A plan of two segments, the second one retimed.
C25_Witness ==
  /\ HasPlan
  /\ Len(Segments) = 2
  /\ Segments[1].speedFactor = 1
  /\ Segments[2].speedFactor # 1
  /\ Len(FilterGraph) = 8

-----------------------------------------------------------------------------
(* Keep decisions *)

KeepRangesOf(es) ==
  LET keeps == OfType(es, "keep")
  IN  [k \in 1..Len(keeps) |-> Range(keeps[k].startTime, keeps[k].endTime)]

\* C26 (as claimed): when the decision list has Keep decisions, all within
\* the media, every second of media in a segment of the timeline lies in the
\* range of a Keep decision.
C26_KeepOnlyKeepRanges ==
  (/\ Built
   /\ KeepRangesOf(edits) # <<>>
   /\ \A k \in 1..Len(edits) : edits[k].endTime <= originalDuration) =>
    \A t \in Cells :
      CoveredBy(KeptRanges, t) => CoveredBy(KeepRangesOf(edits), t)

-----------------------------------------------------------------------------
(* What the operations leave of their inputs *)

\* Objects by address: the k-th annotation, transcript segment or decision of
\* an input array, and the k-th object that a map callback creates.
AnnotationAt(k) == <<"annotation", k>>

SegmentAt(k) == <<"transcript", k>>

DecisionAt(k) == <<"decision", k>>

LiteralAt(k) == <<"literal", k>>

\* The heap after a merge has run on the array that holds the addresses
\* addrs; times(o) reads the times of an object as the range the merge sees,
\* write(o, r) stores them back.
HeapAfter(heap, addrs, merged(_)) ==
  LET after == merged([k \in 1..Len(addrs) |-> heap[addrs[k]]])
      Position(x) == CHOOSE k \in 1..Len(addrs) : addrs[k] = x
  IN  [x \in DOMAIN heap |->
         IF \E k \in 1..Len(addrs) : addrs[k] = x
           THEN after[Position(x)]
           ELSE heap[x]]

\* The times of the annotations and transcript segments of an analysis.
AnalysisHeap(theAnalysis) ==
  [x \in {AnnotationAt(k) : k \in 1..Len(theAnalysis.annotations)}
         \cup {SegmentAt(k) : k \in 1..Len(theAnalysis.transcript)} |->
     IF x[1] = "annotation"
       THEN TimeRange(theAnalysis.annotations[x[2]].startTime,
                      theAnalysis.annotations[x[2]].endTime)
       ELSE TimeRange(theAnalysis.transcript[x[2]].startTime,
                      theAnalysis.transcript[x[2]].endTime)]

\* The addresses of the filler annotations and filler transcript segments,
\* in the order of allFillers.
FillerSources(theAnalysis) ==
  LET anns == SelectSeq([k \in 1..Len(theAnalysis.annotations) |-> k],
                        LAMBDA k : theAnalysis.annotations[k].type = "filler")
      segs == SelectSeq([k \in 1..Len(theAnalysis.transcript) |-> k],
                        LAMBDA k : theAnalysis.transcript[k].isFiller)
  IN  [i \in 1..Len(anns) |-> AnnotationAt(anns[i])]
      \o [i \in 1..Len(segs) |-> SegmentAt(segs[i])]

\* A slip: allFillers holds the annotations and segments themselves.
AllFillersShared(sources) == sources

\* allFillers: map builds a new object { startTime, endTime } per source.
AllFillers(sources) == [k \in 1..Len(sources) |-> LiteralAt(k)]

\* The heap once the cut-fillers rule has merged allFillers.
HeapAfterCutFillers(theAnalysis) ==
  LET sources == FillerSources(theAnalysis)
      allFillers == AllFillers(sources)
      literals == {allFillers[k] : k \in 1..Len(allFillers)}
                    \ DOMAIN AnalysisHeap(theAnalysis)
      heap == [x \in DOMAIN AnalysisHeap(theAnalysis) \cup literals |->
                 IF x \in DOMAIN AnalysisHeap(theAnalysis)
                   THEN AnalysisHeap(theAnalysis)[x]
                   ELSE AnalysisHeap(theAnalysis)[sources[x[2]]]]
  IN  HeapAfter(heap, allFillers, LAMBDA rs : mergeOverlappingRanges(rs).ranges)

\* The analysis as it reads on a heap.
AnalysisOn(theAnalysis, heap) ==
  VideoAnalysis(
    theAnalysis.duration,
    [k \in 1..Len(theAnalysis.annotations) |->
       [theAnalysis.annotations[k] EXCEPT
          !.startTime = heap[AnnotationAt(k)].startTime,
          !.endTime = heap[AnnotationAt(k)].endTime]],
    [k \in 1..Len(theAnalysis.transcript) |->
       [theAnalysis.transcript[k] EXCEPT
          !.startTime = heap[SegmentAt(k)].startTime,
          !.endTime = heap[SegmentAt(k)].endTime]])

\* The analysis as tryQuickCommand(command, analysis) leaves it: only the
\* cut-fillers rule calls a function that writes to objects.
tryQuickCommandLeaves(cmd, theAnalysis) ==
  LET normalizedCommand == toLowerCase(cmd)
  IN  IF TriggersRemoveSilence(normalizedCommand)
        THEN theAnalysis
      ELSE IF TriggersCutFillers(normalizedCommand)
        THEN AnalysisOn(theAnalysis, HeapAfterCutFillers(theAnalysis))
      ELSE theAnalysis

\* cutRanges: map builds a new object { start, end } per Cut decision.
CutRangeObjects(sources) == [k \in 1..Len(sources) |-> LiteralAt(k)]

\* The decisions as generatePreviewTimeline(duration, edits) leaves them:
\* subtractRanges merges cutRanges, and mergeRanges(cutRanges) merges the
\* same array once more.
generatePreviewTimelineLeaves(duration, es) ==
  LET sources == SelectSeq([k \in 1..Len(es) |-> DecisionAt(k)],
                           LAMBDA x : es[x[2]].type = "cut")
      cutRanges == CutRangeObjects(sources)
      decisions == {DecisionAt(k) : k \in 1..Len(es)}
      literals == {cutRanges[k] : k \in 1..Len(cutRanges)} \ decisions
      heap == [x \in decisions \cup literals |->
                 IF x \in decisions
                   THEN Range(es[x[2]].startTime, es[x[2]].endTime)
                   ELSE Range(es[sources[x[2]][2]].startTime,
                              es[sources[x[2]][2]].endTime)]
      first == HeapAfter(heap, cutRanges, LAMBDA rs : mergeRanges(rs).ranges)
      second == HeapAfter(first, cutRanges, LAMBDA rs : mergeRanges(rs).ranges)
  IN  [k \in 1..Len(es) |->
         [es[k] EXCEPT !.startTime = second[DecisionAt(k)].start,
                       !.endTime = second[DecisionAt(k)].end]]

\* A store keeps what another held: every snapshot that is on a stack of both
\* at the same place has the same decisions, a snapshot pushed is the list
\* of before, and a list restored is the snapshot that was on top.
Keeps(before, after, op) ==
  /\ \A k \in 1..Len(after.undoStack) :
       k <= Len(before.undoStack) => after.undoStack[k] = before.undoStack[k]
  /\ \A k \in 1..Len(after.redoStack) :
       k <= Len(before.redoStack) => after.redoStack[k] = before.redoStack[k]
  /\ Len(after.undoStack) > Len(before.undoStack) =>
       Last(after.undoStack) = before.aiEdits
  /\ Len(after.redoStack) > Len(before.redoStack) =>
       Last(after.redoStack) = before.aiEdits
  /\ (op = "undo" /\ before.undoStack # <<>>) =>
       after.aiEdits = Last(before.undoStack)
  /\ (op = "redo" /\ before.redoStack # <<>>) =>
       after.aiEdits = Last(before.redoStack)

\* The decisions of the answer, as executeCommand hands them to addEdits.
QuickDecisions == Identified(quickResult.edits, 1)

\* C27: tryQuickCommand leaves the annotations and transcript segments of
\* its analysis as they were, generatePreviewTimeline leaves the decisions it
\* is given as they were, and addEdits, removeEdit, undo, redo and clearEdits,
\* run one after the other on the decisions of the answer, keep every
\* snapshot and decision that was there before, although the merges write to
\* the ranges they are given.
C27_InputsLeftAsTheyWere ==
  Answered =>
    /\ tryQuickCommandLeaves(command, videoAnalysis) = videoAnalysis
    /\ generatePreviewTimelineLeaves(videoAnalysis.duration, QuickDecisions)
         = QuickDecisions
    /\ LET s0 == Store(<<>>, <<>>, <<>>)
           s1 == addEdits(s0, QuickDecisions)
           s2 == removeEdit(s1, FreshId(1, 1))
           s3 == undo(s2)
           s4 == undo(s3)
           s5 == redo(s4)
           s6 == clearEdits(s5)
       IN  /\ Keeps(s0, s1, "addEdits")
           /\ s1.aiEdits = QuickDecisions
           /\ Keeps(s1, s2, "removeEdit")
           /\ Keeps(s2, s3, "undo")
           /\ Keeps(s3, s4, "undo")
           /\ Keeps(s4, s5, "redo")
           /\ Keeps(s5, s6, "clearEdits")

\* The cut-fillers rule has merged two fillers into one Cut: the merge has
\* written the later end to the first object of allFillers, which is a copy
\* of the first annotation.
C27_Witness ==
  /\ Answered
  /\ AnsweredBy(2)
  /\ Len(FillerRanges) >= 2
  /\ Len(quickResult.edits) = 1
  /\ videoAnalysis.annotations # <<>>
  /\ videoAnalysis.annotations[1].type = "filler"
  /\ HeapAfterCutFillers(videoAnalysis)[LiteralAt(1)].endTime
       > videoAnalysis.annotations[1].endTime

-----------------------------------------------------------------------------
(* executeCommand calls that overlap with other handlers *)

\* The step is the return of the call p, which was in flight waiting for
\* the reply of the interpreter: a request over the network, during which
\* other handlers run.
Returns(p) ==
  /\ p \in pending
  /\ returned'.call = p.call
  /\ returned'.call # returned.call
  /\ returned'.reply.kind # "none"

\* The call p returns through the try branch: interpretCommand did not throw.
ReturnsNormally(p) ==
  /\ Returns(p)
  /\ ~interpretCommand(p.command, p.analysis, p.hasClient, returned'.reply,
                       p.call).rejected

\* Every decision of es is in the list.
AllIn(es, list) ==
  \A k \in 1..Len(es) : \E i \in 1..Len(list) : list[i] = es[k]

\* C28 (as claimed): when a call returns normally and another call has
\* returned normally while it was in flight, so that commandHistory is that
\* call's command in front of the history this call read at its start, and
\* the decisions of that call are in the list, then afterwards
\* commandHistory holds both commands, the one of the call that returns now
\* first, and the decisions of both calls are in the list.
C28_OverlappingCommandsBothRecorded ==
  [][\A p \in pending :
       (/\ ReturnsNormally(p)
        /\ returned.call \notin {0, p.call}
        /\ commandHistory = <<returned.result.command>> \o p.commandHistory
        /\ AllIn(returned.result.edits, aiEdits)) =>
         /\ Len(commandHistory') >= 2
         /\ commandHistory'[1] = p.command
         /\ commandHistory'[2] = returned.result.command
         /\ AllIn(returned.result.edits, aiEdits')
         /\ AllIn(returned'.result.edits, aiEdits')]_vars

\* C29 (as claimed): when clearAnalysis was the last handler to run before a
\* call in flight returns, the decision list, the undo stack and the redo
\* stack are empty after the return.
C29_NoEditsAfterClearAnalysis ==
  [][\A p \in pending :
       (Returns(p) /\ lastCall = "clearAnalysis") =>
         /\ aiEdits' = <<>>
         /\ undoStack' = <<>>
         /\ redoStack' = <<>>]_vars

-----------------------------------------------------------------------------
(* Storage migrations (services/storage/migrations) *)

\* A StorageVersionRecord; inProgress is <<>> when the field is absent.
StorageVersionRecord(version, inProgress) ==
  [version |-> version, inProgress |-> inProgress]

InProgress(from, to) == [from |-> from, to |-> to]

\* The migrations given to every run: one per version step, listed from the
\* last to the first.
StorageMigration(from, to) == [from |-> from, to |-> to]

Migrations ==
  [k \in 1..NumMigrations |->
     StorageMigration(NumMigrations - k, NumMigrations - k + 1)]

\* [...migrations].sort((a, b) => a.from - b.from)
RECURSIVE SortedByFrom(_)
SortedByFrom(ms) ==
  IF ms = <<>> THEN <<>>
  ELSE LET least == CHOOSE k \in 1..Len(ms) :
                      /\ \A j \in 1..Len(ms) : ms[k].from <= ms[j].from
                      /\ \A j \in 1..(k - 1) : ms[j].from # ms[k].from
       IN  <<ms[least]>> \o
           SortedByFrom([j \in 1..(Len(ms) - 1) |->
                           IF j < least THEN ms[j] ELSE ms[j + 1]])

orderedMigrations == SortedByFrom(Migrations)

\* A stored project: whether it is an object, whether its version field is a
\* number and which, and how many scenes it has.
Project(isRecord, hasVersion, version, scenes) ==
  [isRecord |-> isRecord, hasVersion |-> hasVersion, version |-> version,
   scenes |-> scenes]

checkProjectVersion(project) ==
  IF ~project.isRecord THEN 0
  ELSE IF project.hasVersion THEN project.version
  ELSE IF project.scenes > 0 THEN 1
  ELSE 0

inferStorageVersionFromProjects(ps) ==
  IF Len(ps) = 0 THEN 0
  ELSE CHOOSE v \in {checkProjectVersion(ps[k]) : k \in 1..Len(ps)} :
         \A k \in 1..Len(ps) : v <= checkProjectVersion(ps[k])

\* versionManager.setVersion({ version }): the inProgress field of the stored
\* record is kept.
setVersion(record, version) ==
  <<StorageVersionRecord(version,
      IF record # <<>> THEN record[1].inProgress ELSE <<>>)>>

\* versionManager.setInProgress({ from, to })
setInProgress(record, from, to) ==
  <<StorageVersionRecord(IF record # <<>> THEN record[1].version ELSE 0,
                         <<InProgress(from, to)>>)>>

\* versionManager.clearInProgress()
clearInProgress(record) ==
  <<StorageVersionRecord(IF record # <<>> THEN record[1].version ELSE 0, <<>>)>>

\* versionRecord?.inProgress?.from ?? versionRecord?.version
\*   ?? inferredVersion ?? 0
FromVersion(record, ps) ==
  IF record = <<>> THEN inferStorageVersionFromProjects(ps)
  ELSE IF record[1].inProgress # <<>> THEN record[1].inProgress[1].from
  ELSE record[1].version

\* The places of orderedMigrations, from index on, whose migration starts at
\* the current version: the loop skips the others.
Due(run) ==
  {j \in run.index..Len(orderedMigrations) :
     orderedMigrations[j].from = run.currentVersion}

At(pc) == migrationRun.pc = pc

migFrame == <<storeVars, tlVars, mergeVars, quickVars, analysis, cmdVars>>

\* Stored projects of the versions that the application has written.
ProjectKinds ==
  { Project(FALSE, FALSE, 0, 0),
    Project(TRUE, FALSE, 0, 0),
    Project(TRUE, FALSE, 0, 1) }
  \cup {Project(TRUE, TRUE, v, 1) : v \in 1..NumMigrations}

InitMigrations ==
  /\ InitStore
  /\ IdleTimeline
  /\ IdleMerge
  /\ IdleQuick
  /\ IdleCommand
  /\ storageVersion = <<>>
  /\ projects \in SeqsUpTo(ProjectKinds, MaxProjects)
  /\ migrationRun = NoRun
  /\ runs = 0
  /\ versionsSet = {}
  /\ migrationResult = <<>>

\* runStorageMigrations is called: on page load.
StartRun ==
  /\ At("idle")
  /\ runs < MaxRuns
  /\ runs' = runs + 1
  /\ migrationRun' = Run("getVersionRecord", 0, 0, 0)
  /\ migrationResult' = <<>>
  /\ UNCHANGED <<storageVersion, projects, versionsSet, migFrame>>

\* The record is read, the version inferred when there is none, and
\* fromVersion computed.
GetVersionRecord ==
  /\ At("getVersionRecord")
  /\ LET fromVersion == FromVersion(storageVersion, projects)
     IN  migrationRun' =
           Run(IF storageVersion = <<>> THEN "setVersion first" ELSE "loop",
               fromVersion, fromVersion, 1)
  /\ UNCHANGED <<storageVersion, projects, runs, versionsSet, migrationResult,
                 migFrame>>

\* if (!versionRecord) await versionManager.setVersion({ version: fromVersion })
SetFirstVersion ==
  /\ At("setVersion first")
  /\ storageVersion' = setVersion(storageVersion, migrationRun.fromVersion)
  /\ versionsSet' = versionsSet \cup {migrationRun.fromVersion}
  /\ migrationRun' = [migrationRun EXCEPT !.pc = "loop"]
  /\ UNCHANGED <<projects, runs, migrationResult, migFrame>>

\* The loop reaches a migration that starts at currentVersion and marks it.
SetInProgress ==
  /\ At("loop")
  /\ Due(migrationRun) # {}
  /\ LET j == CHOOSE j \in Due(migrationRun) :
                \A i \in Due(migrationRun) : j <= i
         migration == orderedMigrations[j]
     IN  /\ storageVersion' =
               setInProgress(storageVersion, migration.from, migration.to)
         /\ migrationRun' = [migrationRun EXCEPT !.pc = "run", !.index = j]
  /\ UNCHANGED <<projects, runs, versionsSet, migrationResult, migFrame>>

\* await migration.run(); currentVersion = migration.to.  run is abstract:
\* what it does to the stored data is the migration's own.
RunMigration ==
  /\ At("run")
  /\ migrationRun' =
       [migrationRun EXCEPT
          !.pc = "setVersion",
          !.currentVersion = orderedMigrations[migrationRun.index].to]
  /\ UNCHANGED <<storageVersion, projects, runs, versionsSet, migrationResult,
                 migFrame>>

\* await versionManager.setVersion({ version: currentVersion })
SetVersion ==
  /\ At("setVersion")
  /\ storageVersion' = setVersion(storageVersion, migrationRun.currentVersion)
  /\ versionsSet' = versionsSet \cup {migrationRun.currentVersion}
  /\ migrationRun' = [migrationRun EXCEPT !.pc = "clearInProgress"]
  /\ UNCHANGED <<projects, runs, migrationResult, migFrame>>

\* await versionManager.clearInProgress(); the loop goes on.
ClearInProgress ==
  /\ At("clearInProgress")
  /\ storageVersion' = clearInProgress(storageVersion)
  /\ migrationRun' = [migrationRun EXCEPT !.pc = "loop", !.index = @ + 1]
  /\ UNCHANGED <<projects, runs, versionsSet, migrationResult, migFrame>>

StorageMigrationResult(fromVersion, toVersion) ==
  [fromVersion |-> fromVersion, toVersion |-> toVersion,
   migrated |-> toVersion # fromVersion]

\* No migration is left that starts at currentVersion: the run returns.
ReturnResult ==
  /\ At("loop")
  /\ Due(migrationRun) = {}
  /\ migrationResult' =
       <<StorageMigrationResult(migrationRun.fromVersion,
                                migrationRun.currentVersion)>>
  /\ migrationRun' = NoRun
  /\ UNCHANGED <<storageVersion, projects, runs, versionsSet, migFrame>>

\* The page is closed while the run waits at an await.
Interrupt ==
  /\ ~At("idle")
  /\ migrationRun' = NoRun
  /\ UNCHANGED <<storageVersion, projects, runs, versionsSet, migrationResult,
                 migFrame>>

NextMigrations ==
  \/ StartRun
  \/ GetVersionRecord
  \/ SetFirstVersion
  \/ SetInProgress
  \/ RunMigration
  \/ SetVersion
  \/ ClearInProgress
  \/ ReturnResult
  \/ Interrupt

SpecMigrations == InitMigrations /\ [][NextMigrations]_vars

\* C30 (as claimed): a run never runs a migration whose target version
\* setVersion has written to the record before, and a run that returns
\* leaves the record with the returned toVersion and without inProgress.
C30_MigrationNotRunAgain ==
  [][/\ (At("run") /\ migrationRun'.pc = "setVersion") =>
          orderedMigrations[migrationRun.index].to \notin versionsSet
     /\ (migrationResult = <<>> /\ migrationResult' # <<>>) =>
          /\ storageVersion' # <<>>
          /\ storageVersion'[1].version = migrationResult'[1].toVersion
          /\ storageVersion'[1].inProgress = <<>>]_vars

====
